---- MODULE Spec2Model ----
(***************************************************************************)
(* A model of the exam-paper ingestion pipeline of the quiz bank:          *)
(*   - pdf_extractor.py  : per-page text with embedded markers             *)
(*   - llm_parser.py     : adaptive chunking, per-chunk LLM extraction,    *)
(*                         page -> image reconciliation, JSON artifact     *)
(*   - insert_questions.py and the CRUD handlers of app.py (further down)  *)
(*                                                                         *)
(* Text is modelled as a sequence of symbols.  A symbol is a pair          *)
(* <<kind, n>>: a newline, a space, the page-separator token, a block of   *)
(* n ordinary characters, a page-number marker or an image marker.         *)
(* split / join / len are computed on these sequences the way Python       *)
(* computes them on strings.                                               *)
(***************************************************************************)
EXTENDS Integers, Sequences, FiniteSets, TLC

(* ------------------------------ bounds -------------------------------- *)
MaxPages  == 12        \* pages of the document under parse
MaxFrags  == 1         \* fragments in one LLM array response

(* --------------------------- text symbols ----------------------------- *)
NL        == <<"nl", 0>>                 \* "\n"
SP        == <<"sp", 0>>                 \* " "
SEP       == <<"sep", 0>>                \* "=== PAGE BREAK ==="
Body(n)   == <<"body", n>>               \* n characters of cleaned page text
PNum(i)   == <<"pnum", i>>               \* "[PAGE_NUMBER: i]"
Img(i)    == <<"img", i>>                \* "[PAGE_IMAGE_SAVED: question_media/doc_page<i>.png]"

\* symbols of an LLM response
FENCE     == <<"fence", 0>>              \* "```"
JsonWord  == <<"jsonword", 0>>           \* the four letters "json"
TAB       == <<"tab", 0>>                \* "\t"
DEL       == <<"del", 0>>                \* "\x7f"
CH        == <<"ch", 0>>                 \* ordinary characters of a string value
LBR       == <<"lbr", 0>>                \* "["
RBR       == <<"rbr", 0>>                \* "]"
COMMA     == <<"comma", 0>>              \* ","
Elem(k)   == <<"elem", k>>               \* the JSON text of element k (no control characters)
\* '[{"question_no": "3", ..., "question_stem": "' and '"}]': the text of a
\* one-fragment array around the characters of its question_stem
StemOpen  == <<"open", 0>>
StemClose == <<"close", 0>>

Digits(i) == IF i < 10 THEN 1 ELSE IF i < 100 THEN 2 ELSE 3

\* len() of one symbol, in characters
SymLen(s) ==
    CASE s[1] = "nl"   -> 1
      [] s[1] = "sp"   -> 1
      [] s[1] = "sep"  -> 18
      [] s[1] = "body" -> s[2]
      [] s[1] = "pnum" -> 15 + Digits(s[2])
      [] s[1] = "img"  -> 47 + Digits(s[2])

RECURSIVE TextLen(_)
TextLen(t) == IF t = <<>> THEN 0 ELSE SymLen(Head(t)) + TextLen(Tail(t))

RECURSIVE SumLen(_)
\* sum(len(p) for p in pages)
SumLen(ps) == IF ps = <<>> THEN 0 ELSE TextLen(Head(ps)) + SumLen(Tail(ps))

RECURSIVE SplitPages(_)
\* text.split("=== PAGE BREAK ==="): cut at the first separator token and
\* split the rest; a text without the token is one segment
SplitPages(t) ==
    LET seps == {i \in 1..Len(t) : t[i] = SEP}
    IN  IF seps = {} THEN <<t>>
        ELSE LET first == CHOOSE i \in seps : \A j \in seps : i <= j
             IN  <<SubSeq(t, 1, first - 1)>> \o SplitPages(SubSeq(t, first + 1, Len(t)))

RECURSIVE JoinWith(_, _)
\* sep.join(ps)
JoinWith(sep, ps) ==
    IF ps = <<>> THEN <<>>
    ELSE IF Len(ps) = 1 THEN ps[1]
    ELSE ps[1] \o sep \o JoinWith(sep, Tail(ps))

\* the separator parse_file re-inserts between the pages of a chunk
ChunkSep == <<NL, SEP, NL>>
\* the separator pdf_extractor writes between pages
FileSep  == <<NL, NL, SEP, NL, NL>>

(* --------------------------- pdf_extractor ---------------------------- *)
\* One page's text block: cleaned text, "\n", the marker pair, "\n", then
\* strip().  A page without extractable text is just the marker pair.
PageBlock(i, bodyLen) ==
    (IF bodyLen = 0 THEN <<>> ELSE <<Body(bodyLen), NL>>) \o <<Img(i), SP, PNum(i)>>

ExtractText(bodies) ==
    JoinWith(FileSep, [i \in 1..Len(bodies) |-> PageBlock(i, bodies[i])])

(* ------------------------------ values -------------------------------- *)
\* Python's None against a present value
NoneVal   == [some |-> FALSE, val |-> <<>>]
Some(v)   == [some |-> TRUE, val |-> v]

\* a slice whose end is inclusive: the chunk takes one page too many
Slice_EndInclusive(s, i, j) == SubSeq(s, i + 1, IF j + 1 < Len(s) THEN j + 1 ELSE Len(s))

\* pages[i:j] of Python (0-based, end exclusive, clipped to the list)
Slice(s, i, j) == SubSeq(s, i + 1, IF j < Len(s) THEN j ELSE Len(s))

RECURSIVE Flatten(_)
\* concatenation of a sequence of sequences
Flatten(ss) == IF ss = <<>> THEN <<>> ELSE Head(ss) \o Flatten(Tail(ss))

RECURSIVE SeqToSet(_)
SeqToSet(s) == IF s = <<>> THEN {} ELSE {Head(s)} \cup SeqToSet(Tail(s))

(* ----------------------- llm_parser: page index ----------------------- *)
IsPNum(s) == s[1] = "pnum"
IsImg(s)  == s[1] = "img"

RECURSIVE BuildMapGo_LastMarker(_, _)
\* an index keyed by the last page-number marker of a segment
BuildMapGo_LastMarker(ps, m) ==
    IF ps = <<>> THEN m
    ELSE LET page_nums == SelectSeq(Head(ps), IsPNum)
             img_syms  == SelectSeq(Head(ps), IsImg)
             img_paths == [j \in 1..Len(img_syms) |-> img_syms[j][2]]
             m2 == IF page_nums # <<>>
                   THEN [k \in (DOMAIN m) \cup {page_nums[Len(page_nums)][2]} |->
                            IF k = page_nums[Len(page_nums)][2] THEN img_paths ELSE m[k]]
                   ELSE m
         IN  BuildMapGo_LastMarker(Tail(ps), m2)

RECURSIVE BuildMapGo(_, _)
\* for page_text in pages: the first page-number marker and every image
\* marker of the segment; page_map[page_num] = img_paths
BuildMapGo(ps, m) ==
    IF ps = <<>> THEN m
    ELSE LET page_nums == SelectSeq(Head(ps), IsPNum)
             img_syms  == SelectSeq(Head(ps), IsImg)
             img_paths == [j \in 1..Len(img_syms) |-> img_syms[j][2]]
             m2 == IF page_nums # <<>>
                   THEN [k \in (DOMAIN m) \cup {page_nums[1][2]} |->
                            IF k = page_nums[1][2] THEN img_paths ELSE m[k]]
                   ELSE m
         IN  BuildMapGo(Tail(ps), m2)

\* an index built without splitting the text into pages
build_page_to_image_map_NoSplit(full_text) == BuildMapGo(<<full_text>>, <<>>)

\* page number -> list of image paths of that page
build_page_to_image_map(full_text) == BuildMapGo(SplitPages(full_text), <<>>)

(* ------------------------ llm_parser: chunking ------------------------ *)
SparseLimit == 500
MediumLimit == 1500
SparseChunk == 10
MediumChunk == 5
DenseChunk  == 3

\* the medium and dense sizes swapped
adaptive_chunk_size_Swapped(ps) ==
    IF SumLen(ps) < SparseLimit * Len(ps) THEN SparseChunk
    ELSE IF SumLen(ps) < MediumLimit * Len(ps) THEN DenseChunk
    ELSE MediumChunk

\* avg_page_length = sum(len(p)) / len(pages) compared with the limits;
\* pages is never empty, so avg < L iff sum < L * len(pages)
adaptive_chunk_size(ps) ==
    IF SumLen(ps) < SparseLimit * Len(ps) THEN SparseChunk
    ELSE IF SumLen(ps) < MediumLimit * Len(ps) THEN MediumChunk
    ELSE DenseChunk

RECURSIVE ChunkLoop(_, _, _, _)
\* for i in range(0, len(pages), size): chunks.append(join(pages[i:i+size]))
ChunkLoop(ps, size, i, acc) ==
    IF i >= Len(ps) THEN acc
    ELSE ChunkLoop(ps, size, i + size,
                   Append(acc, JoinWith(ChunkSep, Slice(ps, i, i + size))))

MakeChunks(ps, size) == ChunkLoop(ps, size, 0, <<>>)

(* ------------------- llm_parser: LLM responses ------------------------ *)
QuestionTypes == {"mcq", "mrq", "coding", "open-ended", "fill-in-the-blanks", "others"}

\* the fragments the LLM may return in this model: one well-typed, one whose
\* question_type is outside the enum and that claims a page with no index entry
\* entries of a page_numbers array as json.loads hands them over
PInt(n)    == <<"int", n>>               \* the integer n
PFloat(t)  == <<"float", t>>             \* a number with a fraction, t in tenths
PWordStr   == <<"str", 0>>               \* a string that is no numeral
PNull      == <<"null", 0>>              \* null
PNested    == <<"list", 0>>              \* a nested array

\* an element of the parsed array.  py: its Python type ("dict" for a
\* fragment); question_stem: the characters of the stem
Frag1 == [py |-> "dict", question_no |-> "1",  question_type |-> "mcq",
          question_stem |-> <<CH>>, page_numbers |-> <<PInt(1)>>]
Frag2 == [py |-> "dict", question_no |-> "2a", question_type |-> "essay",
          question_stem |-> <<CH>>, page_numbers |-> <<PInt(5), PInt(6), PInt(99)>>]
Fragments == {Frag1, Frag2}

\* the array of n fragments a response carries: Frag1, Frag2, Frag1, ...
FragArray(n) == [i \in 1..n |-> IF i % 2 = 1 THEN Frag1 ELSE Frag2]

\* what one chunk's call can end in: the call raises, the text is not JSON,
\* the JSON is an array of up to n fragments, or the JSON is a single object
ResponsesUpTo(n) ==
    {[kind |-> "error", items |-> <<>>], [kind |-> "invalid_json", items |-> <<>>]}
    \cup {[kind |-> "array", items |-> FragArray(k)] : k \in 0..n}
    \cup {[kind |-> "object", items |-> <<Frag2>>]}

LLMResponses == ResponsesUpTo(MaxFrags)

ChunkParsed(r) == r.kind \in {"array", "object", "scalar"}

\* parsed = json.loads(...); if not isinstance(parsed, list): parsed = [parsed]
ParsedList(r) == r.items

\* all_questions.extend(parsed) on success
ExtendOnSuccess(all_q, r) == all_q \o ParsedList(r)
\* a failing chunk that throws away what earlier chunks produced
KeepOnFailure_Reset(all_q, r) == <<>>

\* both except branches only log
KeepOnFailure(all_q, r) == all_q

\* one iteration of the chunk loop
AfterChunk(all_q, r) ==
    IF ChunkParsed(r) THEN ExtendOnSuccess(all_q, r) ELSE KeepOnFailure(all_q, r)

(* ------------------ llm_parser: page reconciliation ------------------- *)
RECURSIVE CollectImages(_, _)
\* for page_num in page_numbers: if in map: image_paths.extend(map[page_num])
CollectImages(page_numbers, page_map) ==
    IF page_numbers = <<>> THEN <<>>
    ELSE (IF Head(page_numbers) \in DOMAIN page_map
          THEN page_map[Head(page_numbers)] ELSE <<>>)
         \o CollectImages(Tail(page_numbers), page_map)

\* int(p): ok is FALSE when it raises ValueError / TypeError; a float is
\* truncated towards zero
PyInt(p) ==
    CASE p[1] = "int"   -> [ok |-> TRUE,  val |-> p[2]]
      [] p[1] = "float" -> [ok |-> TRUE,  val |-> p[2] \div 10]
      [] OTHER          -> [ok |-> FALSE, val |-> 0]

RECURSIVE CleanPageNumbers(_)
\* for p in page_numbers_raw: try: page_numbers.append(int(p)) except: pass
CleanPageNumbers(page_numbers_raw) ==
    IF page_numbers_raw = <<>> THEN <<>>
    ELSE (IF PyInt(Head(page_numbers_raw)).ok
          THEN <<PyInt(Head(page_numbers_raw)).val>> ELSE <<>>)
         \o CleanPageNumbers(Tail(page_numbers_raw))

\* a reconciliation that looks only at the first claimed page
MapOne_FirstPageOnly(q, page_map) ==
    LET page_numbers == CleanPageNumbers(q.page_numbers)
    IN  [k \in (DOMAIN q) \cup {"page_numbers", "page_image_paths"} |->
            IF k = "page_numbers" THEN page_numbers
            ELSE IF k = "page_image_paths"
                 THEN SeqToSet(CollectImages(SubSeq(page_numbers, 1, 1), page_map))
            ELSE q[k]]

\* the two keys the loop body sets on q, the others staying as they are.
\* q["page_image_paths"] = list(set(image_paths)): the order of the list is
\* not determined, so the value is kept as the set
MapOne(q, page_map) ==
    LET page_numbers == CleanPageNumbers(q.page_numbers)
    IN  [k \in (DOMAIN q) \cup {"page_numbers", "page_image_paths"} |->
            IF k = "page_numbers" THEN page_numbers
            ELSE IF k = "page_image_paths"
                 THEN SeqToSet(CollectImages(page_numbers, page_map))
            ELSE q[k]]

\* q.get raises AttributeError on an element that is no dict
MapRaises(questions) == \E i \in 1..Len(questions) : questions[i].py # "dict"

map_pages_to_images(questions, page_map) ==
    [i \in 1..Len(questions) |-> MapOne(questions[i], page_map)]

\* return value of parse_file once the chunk loop is over
ParseReturn(all_q, page_map) ==
    IF all_q = <<>> THEN NoneVal ELSE Some(map_pages_to_images(all_q, page_map))

\* parse_exam_papers: "if questions:" writes the artifact, else leaves the
\* output directory as it was
ArtifactAfter(old, qs) ==
    IF qs.some /\ qs.val # <<>> THEN Some(qs.val) ELSE old

(* ============================== state ================================= *)
VARIABLES
    \* --- one run of llm_parser.py over one text file ---
    txt,                 \* the extracted text file (NoneVal: file missing)
    pf_pc,               \* position in parse_file / parse_exam_papers
    page_to_image_map,
    pages,
    adaptive_size,       \* adaptive_chunk_size
    chunks,
    idx,                 \* index of the chunk the loop is at (1-based)
    all_questions,
    responses,           \* history: what each processed chunk's call ended in
    questions_ret,       \* value returned by parse_file
    json_out             \* the document's JSON artifact (NoneVal: no file)

pvars == <<txt, pf_pc, page_to_image_map, pages, adaptive_size, chunks, idx,
           all_questions, responses, questions_ret, json_out>>

VARIABLES
    \* --- the relational store (committed state) ---
    files,               \* files table: id -> [file_name, course]
    questions,           \* questions table: id -> row
    next_qid,            \* AUTO_INCREMENT of questions
    next_fid,            \* AUTO_INCREMENT of files
    \* --- the file system ---
    source_files,        \* names of the PDFs saved under the source directory
    json_dir,            \* data/json_output: document -> artifact (NoneVal: no file)
    \* --- the upload pipeline and one run of insert_questions.py ---
    ing_pc,              \* position of the pipeline / of the script
    up_doc,              \* document the running upload is about (NoneVal: manual run)
    ing_todo,            \* json files the script has not looked at yet
    ing_doc,             \* json file whose questions are being inserted
    ing_file_id,         \* file_id found by get_file_id
    ing_i,               \* index of the next question of the file (1-based)
    pending,             \* rows written by the script's open transaction
    success_count,
    ing_report,          \* what the script printed last about a file
    \* --- last HTTP response of the API ---
    resp,
    \* --- history ---
    ever_had,            \* ids of files some committed question has belonged to
    ingested,            \* documents whose artifact a committed ingestion has read
    \* --- upload_file while the pipeline runs ---
    logs                 \* the handler's logs: an entry per stage that returned

dbvars   == <<files, questions, next_qid, next_fid>>
fsvars   == <<source_files, json_dir>>
ingvars  == <<ing_pc, up_doc, ing_todo, ing_doc, ing_file_id, ing_i, pending,
              success_count, ing_report>>
histvars == <<ever_had, ingested>>
dvars    == <<dbvars, fsvars, ingvars, resp, histvars, logs>>

VARIABLES
    \* --- one run of pdf_extractor.py over one PDF ---
    ex_pdf,              \* the PDF: cleaned text length of every page
    ex_pc,               \* position in extract_text_and_page_images
    ex_i,                \* page the loop is at (1-based)
    ex_full_text,        \* full_text: the page blocks appended so far
    ex_images,           \* pages whose image file has been saved
    ex_text_file,        \* the text file of the document (NoneVal: no file)
    ex_fail              \* history: page whose rendering raised (0: none)

xvars == <<ex_pdf, ex_pc, ex_i, ex_full_text, ex_images, ex_text_file, ex_fail>>

VARIABLES
    \* --- the API as its client sees it ---
    req,                 \* the last request sent to an edit / delete / list route
    view                 \* the items of the last answer of get_question

evars == <<req, view>>

VARIABLES
    \* --- the try body of the chunk loop, as of the last iteration ---
    raw,                 \* response.text
    output,              \* sanitize_output(response.text)
    output_clean,        \* output without control characters
    chunk_parsed         \* parsed: what json.loads made of output_clean

cvars == <<raw, output, output_clean, chunk_parsed>>

VARIABLES
    \* --- delete requests served at the same time ---
    txs                  \* request -> its position, locals and open transaction

tvars == <<txs>>

vars == <<pvars, dvars, xvars, evars, cvars, tvars>>

(* --------------------------- parse: inputs ---------------------------- *)
\* lengths of a page's cleaned text: none, sparse, medium, dense
BodyLens == {0, 230, 930, 1930}

\* documents of 1..MaxPages pages: the first j pages of one density, the
\* rest of a higher one
DocBodies ==
    UNION { { [i \in 1..n |-> IF i <= j THEN ab[1] ELSE ab[2]] :
                j \in 0..n, ab \in {x \in BodyLens \X BodyLens : x[1] <= x[2]} } :
            n \in 1..MaxPages }

ParseInit ==
    /\ txt \in {NoneVal} \cup {Some(ExtractText(b)) : b \in DocBodies}
    /\ pf_pc = "start"
    /\ page_to_image_map = <<>>
    /\ pages = <<>>
    /\ adaptive_size = 0
    /\ chunks = <<>>
    /\ idx = 0
    /\ all_questions = <<>>
    /\ responses = <<>>
    /\ questions_ret = NoneVal
    /\ json_out = NoneVal

(* ----------------------- page index: any text ------------------------- *)
MaxBlobLen == 5        \* symbols of a text file that no extractor wrote

\* text files of TEXT_DIR put together from separators, markers and text in
\* any order: segments with several markers, with none, repeated page numbers
BlobSymbols == {SEP, PNum(1), PNum(2), Img(1), Img(2), Body(230)}
Blobs == UNION {[1..n -> BlobSymbols] : n \in 0..MaxBlobLen}

\* parse_file is about to read such a file
IndexInit ==
    /\ txt \in {Some(b) : b \in Blobs}
    /\ pf_pc = "start"
    /\ page_to_image_map = <<>>
    /\ pages = <<>>
    /\ adaptive_size = 0
    /\ chunks = <<>>
    /\ idx = 0
    /\ all_questions = <<>>
    /\ responses = <<>>
    /\ questions_ret = NoneVal
    /\ json_out = NoneVal

(* --------------------------- parse: actions --------------------------- *)
\* open() raises: parse_file returns None
ReadFileMissing ==
    /\ pf_pc = "start"
    /\ ~txt.some
    /\ questions_ret' = NoneVal
    /\ pf_pc' = "returned"
    /\ UNCHANGED <<txt, page_to_image_map, pages, adaptive_size, chunks, idx,
                   all_questions, responses, json_out>>

\* read the file, build the page index, split into pages, pick the chunk
\* size, build the chunks
SplitAndChunk ==
    /\ pf_pc = "start"
    /\ txt.some
    /\ page_to_image_map' = build_page_to_image_map(txt.val)
    /\ pages' = SplitPages(txt.val)
    /\ adaptive_size' = adaptive_chunk_size(pages')
    /\ chunks' = MakeChunks(pages', adaptive_size')
    /\ idx' = 1
    /\ all_questions' = <<>>
    /\ pf_pc' = "loop"
    /\ UNCHANGED <<txt, responses, questions_ret, json_out>>

\* one iteration of "for idx, chunk_text in enumerate(chunks, 1)" whose call
\* ends in r
ProcessChunk(r) ==
    /\ pf_pc = "loop"
    /\ idx <= Len(chunks)
    /\ all_questions' = AfterChunk(all_questions, r)
    /\ responses' = Append(responses, r)
    /\ idx' = idx + 1
    /\ UNCHANGED <<txt, pf_pc, page_to_image_map, pages, adaptive_size, chunks,
                   questions_ret, json_out>>

ChunkSuccess     == \E r \in LLMResponses : ChunkParsed(r) /\ ProcessChunk(r)
ChunkInvalidJSON == \E r \in LLMResponses : r.kind = "invalid_json" /\ ProcessChunk(r)
ChunkException   == \E r \in LLMResponses : r.kind = "error" /\ ProcessChunk(r)

\* after the loop: None when nothing was accumulated, else reconcile pages
FinishParse ==
    /\ pf_pc = "loop"
    /\ idx > Len(chunks)
    /\ ~MapRaises(all_questions)
    /\ questions_ret' = ParseReturn(all_questions, page_to_image_map)
    /\ pf_pc' = "returned"
    /\ UNCHANGED <<txt, page_to_image_map, pages, adaptive_size, chunks, idx,
                   all_questions, responses, json_out>>

\* after the loop, with an element that is no dict among the accumulated
\* ones: map_pages_to_images raises, nothing catches it, parse_file and
\* parse_exam_papers end with the exception
FinishParseRaises ==
    /\ pf_pc = "loop"
    /\ idx > Len(chunks)
    /\ MapRaises(all_questions)
    /\ pf_pc' = "raised"
    /\ UNCHANGED <<txt, page_to_image_map, pages, adaptive_size, chunks, idx,
                   all_questions, responses, questions_ret, json_out>>

\* parse_exam_papers after parse_file returned
WriteArtifact ==
    /\ pf_pc = "returned"
    /\ json_out' = ArtifactAfter(json_out, questions_ret)
    /\ pf_pc' = "done"
    /\ UNCHANGED <<txt, page_to_image_map, pages, adaptive_size, chunks, idx,
                   all_questions, responses, questions_ret>>

(* ---------------------- parse: the response text ---------------------- *)
\* str.strip() takes off whitespace: "\n", "\t", " " (not "\x7f")
IsSpace(c)  == c \in {NL, SP, TAB}
NotSpace(c) == ~IsSpace(c)

RECURSIVE LStrip(_)
LStrip(t) == IF t # <<>> /\ IsSpace(Head(t)) THEN LStrip(Tail(t)) ELSE t

RECURSIVE RStrip(_)
RStrip(t) ==
    IF t # <<>> /\ IsSpace(t[Len(t)]) THEN RStrip(SubSeq(t, 1, Len(t) - 1)) ELSE t

Strip(t) == RStrip(LStrip(t))

RECURSIVE SplitOn(_, _)
\* t.split(tok): the pieces between the occurrences of tok, always at
\* least one piece
SplitOn(tok, t) ==
    IF t = <<>> THEN << <<>> >>
    ELSE LET rest == SplitOn(tok, Tail(t))
         IN  IF Head(t) = tok THEN << <<>> >> \o rest
             ELSE << <<Head(t)>> \o Head(rest) >> \o Tail(rest)

\* t.splitlines(): the lines, without an empty last line
SplitLines(t) ==
    LET ls == SplitOn(NL, t)
    IN  IF ls[Len(ls)] = <<>> THEN SubSeq(ls, 1, Len(ls) - 1) ELSE ls

\* text.strip().startswith("json")
StartsWithJson(t) == Strip(t) # <<>> /\ Head(Strip(t)) = JsonWord

sanitize_output(text) ==
    LET stripped == Strip(text)
        parts    == SplitOn(FENCE, stripped)
        inner    == parts[2]
    IN  IF stripped # <<>> /\ Head(stripped) = FENCE /\ Len(parts) >= 3
        THEN IF StartsWithJson(inner)
             THEN Strip(JoinWith(<<NL>>, Tail(SplitLines(inner))))
             ELSE Strip(inner)
        ELSE stripped

\* re.sub(r'[\x00-\x1f\x7f-\x9f]', '', output)
IsControl(c)   == c \in {NL, TAB, DEL}
NotControl(c)  == ~IsControl(c)
strip_controls(t) == SelectSeq(t, NotControl)

\* the values the element texts stand for
Frag3 == [py |-> "dict", question_no |-> "4", question_type |-> "mrq",
          question_stem |-> <<CH>>,
          page_numbers |-> <<PInt(1), PFloat(25), PWordStr, PNull, PNested, PInt(2)>>]
NotADict(type) == [py |-> type, question_no |-> "", question_type |-> "",
                   question_stem |-> <<>>, page_numbers |-> <<>>]
ElemValue(k) ==
    CASE k = 1 -> Frag1
      [] k = 2 -> Frag2
      [] k = 3 -> Frag3
      [] k = 4 -> NotADict("int")          \* 5
      [] k = 5 -> NotADict("none")         \* null
      [] OTHER -> NotADict("str")          \* "see above"
\* the fragment of the one-fragment array text around a stem
StemFragment(chars) ==
    [py |-> "dict", question_no |-> "3", question_type |-> "coding",
     question_stem |-> chars, page_numbers |-> <<PInt(2)>>]

IsElem(c) == c[1] = "elem"
\* the only control characters of the alphabet that JSON forbids inside a
\* string are "\n" and "\t"; "\x7f" is an ordinary character of a string
StringChar(c) == c \in {CH, SP, DEL, FENCE, JsonWord}

LoadsFails == [ok |-> FALSE, is_list |-> FALSE, items |-> <<>>]

\* json.loads(t) on the texts of the alphabet.  ok: no JSONDecodeError;
\* is_list: isinstance(parsed, list); items: parsed, or [parsed]
JsonLoadsText(t) ==
    LET s      == Strip(t)
        n      == Len(s)
        tokens == SelectSeq(SubSeq(s, 2, n - 1), NotSpace)
        chars  == SubSeq(s, 2, n - 1)
    IN  IF n = 0 THEN LoadsFails
        ELSE IF n = 1
        THEN IF IsElem(s[1])
             THEN [ok |-> TRUE, is_list |-> FALSE, items |-> <<ElemValue(s[1][2])>>]
             ELSE LoadsFails
        ELSE IF s[1] = LBR /\ s[n] = RBR
        THEN IF \/ tokens = <<>>
                \/ /\ Len(tokens) % 2 = 1
                   /\ \A i \in 1..Len(tokens) :
                          IF i % 2 = 1 THEN IsElem(tokens[i]) ELSE tokens[i] = COMMA
             THEN [ok |-> TRUE, is_list |-> TRUE,
                   items |-> [i \in 1..((Len(tokens) + 1) \div 2) |->
                                 ElemValue(tokens[2 * i - 1][2])]]
             ELSE LoadsFails
        ELSE IF s[1] = StemOpen /\ s[n] = StemClose
        THEN IF \A i \in 1..Len(chars) : StringChar(chars[i])
             THEN [ok |-> TRUE, is_list |-> TRUE, items |-> <<StemFragment(chars)>>]
             ELSE LoadsFails
        ELSE LoadsFails

\* what the iteration does with parsed
ChunkOutcome(p) ==
    IF ~p.ok THEN [kind |-> "invalid_json", items |-> <<>>]
    ELSE IF p.is_list THEN [kind |-> "array", items |-> p.items]
    ELSE IF p.items[1].py = "dict" THEN [kind |-> "object", items |-> p.items]
    ELSE [kind |-> "scalar", items |-> p.items]

\* bodies a model can answer with
Bodies ==
    { <<Elem(2)>>,                                        \* one object
      <<LBR, NL, Elem(1), COMMA, NL, Elem(2), NL, RBR>>,  \* pretty-printed array
      <<LBR, RBR>>,
      <<StemOpen, CH, FENCE, CH, StemClose>>,             \* a stem quoting code in fences
      <<StemOpen, CH, DEL, CH, StemClose>>,               \* a stem with "\x7f"
      <<StemOpen, CH, TAB, CH, StemClose>>,               \* a stem with a raw tab
      <<CH, SP, CH>>,                                     \* prose
      <<Elem(4)>>,                                        \* 5
      <<Elem(5)>>,                                        \* null
      <<LBR, Elem(1), COMMA, Elem(6), RBR>>,              \* an array with a string in it
      <<LBR, Elem(3), RBR>>,                              \* page_numbers of every sort
      <<SP, LBR, Elem(1), RBR, NL>> }                     \* whitespace around the array

FenceTags == {<<>>, <<JsonWord>>}
\* fence, the tag on the same line, the body, fence
Fenced(tag, body) == <<FENCE>> \o tag \o <<NL>> \o body \o <<NL, FENCE>>

RawResponses ==
    Bodies
    \cup {Fenced(tag, b) : tag \in FenceTags, b \in Bodies}
    \cup {<<NL>> \o Fenced(<<JsonWord>>, b) \o <<SP, NL>> : b \in Bodies}

MaxShapePages == 4     \* pages of the documents parsed with response texts

\* dense documents of 1..MaxShapePages pages: one or two chunks
ShapeInit ==
    /\ txt \in {Some(ExtractText([i \in 1..n |-> 1930])) : n \in 1..MaxShapePages}
    /\ pf_pc = "start"
    /\ page_to_image_map = <<>>
    /\ pages = <<>>
    /\ adaptive_size = 0
    /\ chunks = <<>>
    /\ idx = 0
    /\ all_questions = <<>>
    /\ responses = <<>>
    /\ questions_ret = NoneVal
    /\ json_out = NoneVal

\* one iteration whose call returns the text: the try body up to
\* all_questions.extend(parsed), or its except JSONDecodeError branch
ChunkResponse(text) ==
    /\ raw' = text
    /\ output' = sanitize_output(raw')
    /\ output_clean' = strip_controls(output')
    /\ chunk_parsed' = JsonLoadsText(output_clean')
    /\ ProcessChunk(ChunkOutcome(chunk_parsed'))

\* one iteration whose call raises: except Exception
ChunkCallRaises ==
    /\ raw' = <<>>
    /\ output' = <<>>
    /\ output_clean' = <<>>
    /\ chunk_parsed' = LoadsFails
    /\ ProcessChunk([kind |-> "error", items |-> <<>>])

(* ---------------------- request values of the API --------------------- *)
\* A value of the JSON body, as far as concept_tags handling can tell values
\* apart.  kind: the Python type.  A list / tuple has items, each <<"s", x>>
\* (a string) or <<"n", x>> (a number).  A str is described by what
\* json.loads makes of it: jk = "array" (decodes to the list items),
\* "object", "number", or "none" (not JSON); canon tells whether the text is
\* exactly what json.dumps writes for the decoded value; raw names the text
\* of a str that is no array, and the value of a number.
PyNone         == [kind |-> "none",  items |-> <<>>, jk |-> "none",  canon |-> FALSE, raw |-> ""]
PyList(xs)     == [kind |-> "list",  items |-> xs,   jk |-> "none",  canon |-> FALSE, raw |-> ""]
PyTuple(xs)    == [kind |-> "tuple", items |-> xs,   jk |-> "none",  canon |-> FALSE, raw |-> ""]
PyNumber(r)    == [kind |-> "num",   items |-> <<>>, jk |-> "none",  canon |-> FALSE, raw |-> r]
PyDict(r)      == [kind |-> "dict",  items |-> <<>>, jk |-> "none",  canon |-> FALSE, raw |-> r]
PyBareStr(r)   == [kind |-> "str",   items |-> <<>>, jk |-> "none",  canon |-> FALSE, raw |-> r]
PyArrayStr(xs, c) == [kind |-> "str", items |-> xs,  jk |-> "array", canon |-> c,     raw |-> ""]
PyObjectStr(r) == [kind |-> "str",   items |-> <<>>, jk |-> "object", canon |-> TRUE, raw |-> r]
PyNumberStr(r) == [kind |-> "str",   items |-> <<>>, jk |-> "number", canon |-> TRUE, raw |-> r]

\* json.dumps(v, ensure_ascii=False) of a list, a number or a dict: the
\* canonical text of the value
json_dumps(v) ==
    CASE v.kind \in {"list", "tuple"} -> PyArrayStr(v.items, TRUE)
      [] v.kind = "num"               -> PyNumberStr(v.raw)
      [] v.kind = "dict"              -> PyObjectStr(v.raw)
      [] OTHER                        -> v

\* json.loads(s) of a str: ok is FALSE when it raises
json_loads(s) ==
    CASE s.jk = "array"  -> [ok |-> TRUE,  val |-> PyList(s.items)]
      [] s.jk = "object" -> [ok |-> TRUE,  val |-> PyDict(s.raw)]
      [] s.jk = "number" -> [ok |-> TRUE,  val |-> PyNumber(s.raw)]
      [] OTHER           -> [ok |-> FALSE, val |-> PyNone]

\* a normalisation that hands back the parsed list of a JSON-array string
\* without encoding it again
normalize_concept_tags_ReturnsParsed(val) ==
    IF val.kind = "none" THEN PyNone
    ELSE IF val.kind \in {"list", "tuple"} THEN json_dumps(PyList(val.items))
    ELSE IF val.kind = "str"
         THEN LET parsed == json_loads(val)
              IN  IF parsed.ok /\ parsed.val.kind \in {"list", "tuple"}
                  THEN PyList(parsed.val.items)
                  ELSE val
    ELSE json_dumps(val)

normalize_concept_tags(val) ==
    IF val.kind = "none" THEN PyNone
    ELSE IF val.kind \in {"list", "tuple"} THEN json_dumps(PyList(val.items))
    ELSE IF val.kind = "str"
         THEN LET parsed == json_loads(val)
              IN  IF parsed.ok /\ parsed.val.kind \in {"list", "tuple"}
                  THEN json_dumps(PyList(parsed.val.items))
                  ELSE val
    ELSE json_dumps(val)

\* A difficulty value of the JSON body.  num is the number in tenths; for a
\* str, numeral tells whether float() can read the text and num what it reads.
DNone        == [kind |-> "none",  num |-> 0, numeral |-> FALSE]
DInt(n)      == [kind |-> "int",   num |-> n, numeral |-> TRUE]
DFloat(n)    == [kind |-> "float", num |-> n, numeral |-> TRUE]
DNumStr(n)   == [kind |-> "str",   num |-> n, numeral |-> TRUE]
DWordStr     == [kind |-> "str",   num |-> 0, numeral |-> FALSE]
DList        == [kind |-> "list",  num |-> 0, numeral |-> FALSE]

\* a nullable DOUBLE column: NULL, or a number in tenths
SqlNull      == [null |-> TRUE,  num |-> 0]
SqlNum(n)    == [null |-> FALSE, num |-> n]

\* a coercion that answers 0.0 where float() raises
PyFloat_ZeroOnError(v) == [ok |-> TRUE, num |-> IF v.numeral THEN v.num ELSE 0]

\* float(v): ok is FALSE when it raises ValueError / TypeError
PyFloat(v) ==
    IF v.kind \in {"int", "float"} \/ (v.kind = "str" /\ v.numeral)
    THEN [ok |-> TRUE, num |-> v.num]
    ELSE [ok |-> FALSE, num |-> 0]

(* ============================= the store ============================== *)
MaxQid == 2            \* question ids the store hands out
MaxUploadFrags == 2    \* fragments in one LLM array response of an upload
MaxFid == 2            \* file ids the store hands out

\* base names of the documents that can be uploaded
Docs == {"d1"}

\* file names are <<stem, extension>>
PdfOf(stem)      == <<stem, "pdf">>       \* candidate_name of an upload
JsonOf(stem)     == <<stem, "json">>      \* the artifact's file name
Stem(name)       == name[1]               \* Path(name).stem, os.path.splitext(name)[0]
\* pdf_name = os.path.splitext(json_file)[0] + ".pdf"
PdfNameOfJson(json_file) == <<Stem(json_file), "pdf">>

EmptyTable == <<>>

\* INSERT of one row under a fresh id
InsertRow(tbl, id, row) ==
    [k \in (DOMAIN tbl) \cup {id} |-> IF k = id THEN row ELSE tbl[k]]

\* the follow-up statement that never runs: the placeholder stays
SetBaseId_Skipped(tbl, id) == tbl

\* UPDATE questions SET question_base_id = id WHERE id = id
SetBaseId(tbl, id) ==
    IF id \in DOMAIN tbl THEN [tbl EXCEPT ![id].question_base_id = id] ELSE tbl

\* DELETE ... WHERE id = id
DeleteRow(tbl, id) == [k \in (DOMAIN tbl) \ {id} |-> tbl[k]]

\* conn.commit(): the transaction's rows become part of the table
CommitRows(tbl, pend) ==
    [k \in (DOMAIN tbl) \cup (DOMAIN pend) |-> IF k \in DOMAIN pend THEN pend[k] ELSE tbl[k]]

\* a nullable JSON column holding a list of image paths: NULL, or the text
\* json.dumps wrote for the list (kept as the set of paths it decodes to)
SqlNullPaths     == [null |-> TRUE,  paths |-> {}]
JsonPaths(paths) == [null |-> FALSE, paths |-> paths]

\* q.get(key, default) on a fragment
FragGet(q, key, default) == IF key \in DOMAIN q THEN q[key] ELSE default

\* the row the INSERT statements write: placeholder base id 0, version 1,
\* no model rating; a column the statement does not name is NULL
NewQuestionRow(file_id, question_no, question_type, concept_tags, difficulty_rating_manual, question_media, page_image_paths) ==
    [question_base_id         |-> 0,
     version_id               |-> 1,
     file_id                  |-> file_id,
     question_no              |-> question_no,
     question_type            |-> question_type,
     concept_tags             |-> concept_tags,
     difficulty_rating_manual |-> difficulty_rating_manual,
     difficulty_rating_model  |-> SqlNull,
     question_media           |-> question_media,
     page_image_paths         |-> page_image_paths]

\* the row insert_question writes for the fragment q: the INSERT names
\* question_media (json.dumps(q.get("question_media", []))) and does not
\* name page_image_paths
IngestedRow(q, file_id) ==
    NewQuestionRow(file_id, q.question_no, q.question_type,
                   json_dumps(PyList(FragGet(q, "concept_tags", <<>>))),
                   FragGet(q, "difficulty_rating_manual", SqlNull),
                   JsonPaths(FragGet(q, "question_media", {})),
                   SqlNullPaths)

\* SELECT COUNT(*) FROM questions WHERE file_id = f
CountOfFile(tbl, f) == Cardinality({k \in DOMAIN tbl : tbl[k].file_id = f})

\* SELECT id FROM files WHERE file_name = name
FileIdsNamed(name) == {f \in DOMAIN files : files[f].file_name = name}

\* a response: the status code, the error it names, and the "pipeline"
\* object of an upload's response (a log entry per stage, in the order the
\* entries were put in)
OkResp(status)        == [status |-> status, error |-> "none", pipeline |-> <<>>]
ErrResp(status, err)  == [status |-> status, error |-> err, pipeline |-> <<>>]
UploadResp(status, err, pipeline) ==
    [status |-> status, error |-> err, pipeline |-> pipeline]

\* logs[stage] = {"code": code, "stdout": out, "stderr": err}
LogEntry(stage, code) == [stage |-> stage, code |-> code]

(* --------------- the text of an uploaded document --------------------- *)
\* every uploaded document of the store model: three dense pages, one chunk
UploadBodies == <<1930, 1930, 1930>>
UploadText   == ExtractText(UploadBodies)
UploadPages  == SplitPages(UploadText)
UploadChunks == MakeChunks(UploadPages, adaptive_chunk_size(UploadPages))

RECURSIVE FoldChunks(_, _)
\* the chunk loop of parse_file run over the responses rs
FoldChunks(all_q, rs) ==
    IF rs = <<>> THEN all_q ELSE FoldChunks(AfterChunk(all_q, Head(rs)), Tail(rs))

\* llm_parser.py over an uploaded document whose chunks' calls end in rs
ParsedArtifact(old, rs) ==
    ArtifactAfter(old, ParseReturn(FoldChunks(<<>>, rs),
                                   build_page_to_image_map(UploadText)))

(* ------------------------------ DB init ------------------------------- *)
NoReport == [doc |-> "none", status |-> "none", inserted |-> 0, total |-> 0]

StoreInit ==
    /\ files = EmptyTable
    /\ questions = EmptyTable
    /\ next_qid = 1
    /\ next_fid = 1
    /\ source_files = {}
    /\ json_dir = [d \in Docs |-> NoneVal]
    /\ ing_pc = "idle"
    /\ up_doc = NoneVal
    /\ ing_todo = {}
    /\ ing_doc = "none"
    /\ ing_file_id = 0
    /\ ing_i = 0
    /\ pending = EmptyTable
    /\ success_count = 0
    /\ ing_report = NoReport
    /\ resp = OkResp(0)
    /\ ever_had = {}
    /\ ingested = {}
    /\ logs = <<>>

(* ------------------------- upload_file pipeline ----------------------- *)
\* upload_file up to the start of the pipeline: save the PDF, insert the
\* files row and commit.  A name already on disk gets a hash suffix, so a
\* document name is saved once.
UploadFile(d) ==
    /\ ing_pc = "idle"
    /\ PdfOf(d) \notin source_files
    /\ next_fid <= MaxFid
    /\ source_files' = source_files \cup {PdfOf(d)}
    /\ files' = InsertRow(files, next_fid, [file_name |-> PdfOf(d), course |-> "ST1131"])
    /\ next_fid' = next_fid + 1
    /\ up_doc' = Some(d)
    /\ logs' = <<>>
    /\ ing_pc' = "extract"
    /\ UNCHANGED <<questions, next_qid, json_dir, ing_todo, ing_doc, ing_file_id,
                   ing_i, pending, success_count, ing_report, resp, histvars>>

\* the INSERT INTO files raises: 201 "PDF saved but DB insert failed", no
\* pipeline
UploadFileDbError(d) ==
    /\ ing_pc = "idle"
    /\ PdfOf(d) \notin source_files
    /\ source_files' = source_files \cup {PdfOf(d)}
    /\ resp' = ErrResp(201, "db_error")
    /\ UNCHANGED <<dbvars, json_dir, ingvars, histvars, logs>>

\* stage 1, pdf_extractor.py with TARGET_PDF: the text file is written
ExtractDocument ==
    /\ ing_pc = "extract"
    /\ logs' = Append(logs, LogEntry("pdf_extractor", 0))
    /\ ing_pc' = "parse"
    /\ UNCHANGED <<dbvars, fsvars, up_doc, ing_todo, ing_doc, ing_file_id, ing_i,
                   pending, success_count, ing_report, resp, histvars>>

\* the stage the pipeline is at
StageAt(pc) ==
    IF pc = "extract" THEN "pdf_extractor"
    ELSE IF pc = "parse" THEN "llm_parser" ELSE "insert_questions"
StageError(pc) ==
    IF pc = "extract" THEN "pdf_extractor failed"
    ELSE IF pc = "parse" THEN "llm_parser failed" ELSE "insert_questions failed"

\* a stage's process exits with a non-zero code (for insert_questions: the
\* connection at the top of the script fails): 500 with the logs so far,
\* the pipeline stops
StageFails ==
    /\ ing_pc \in {"extract", "parse", "insert"}
    /\ logs' = Append(logs, LogEntry(StageAt(ing_pc), 1))
    /\ resp' = UploadResp(500, StageError(ing_pc), logs')
    /\ ing_pc' = "idle"
    /\ up_doc' = NoneVal
    /\ UNCHANGED <<dbvars, fsvars, ing_todo, ing_doc, ing_file_id, ing_i, pending,
                   success_count, ing_report, histvars>>

\* a stage's process is still running after 900 s: subprocess.run kills it
\* and raises TimeoutExpired, which upload_file does not catch; the request
\* ends in the framework's 500 answer, which has no body of the handler
StageTimesOut ==
    /\ ing_pc \in {"extract", "parse", "insert"}
    /\ resp' = ErrResp(500, "internal_server_error")
    /\ ing_pc' = "idle"
    /\ up_doc' = NoneVal
    /\ UNCHANGED <<dbvars, fsvars, ing_todo, ing_doc, ing_file_id, ing_i, pending,
                   success_count, ing_report, histvars, logs>>

\* stage 2, parse_exam_papers with TARGET_BASE set to the document: the
\* artifact is written when parse_file returns questions
ParseDocument ==
    /\ ing_pc = "parse"
    /\ \E rs \in [1..Len(UploadChunks) -> ResponsesUpTo(MaxUploadFrags)] :
          json_dir' = [json_dir EXCEPT ![up_doc.val] = ParsedArtifact(@, rs)]
    /\ logs' = Append(logs, LogEntry("llm_parser", 0))
    /\ ing_pc' = "insert"
    /\ UNCHANGED <<dbvars, source_files, up_doc, ing_todo, ing_doc, ing_file_id,
                   ing_i, pending, success_count, ing_report, resp, histvars>>

(* --------------------------- insert_questions ------------------------- *)
\* the script starts (stage 3 of an upload, or run by hand): connect, list
\* the json files of the output directory
IngestStart ==
    /\ ing_pc \in {"idle", "insert"}
    /\ ing_todo' = {JsonOf(d) : d \in {x \in DOMAIN json_dir : json_dir[x].some}}
    /\ pending' = EmptyTable
    /\ ing_report' = NoReport
    /\ ing_pc' = "files"
    /\ UNCHANGED <<dbvars, fsvars, up_doc, ing_doc, ing_file_id, ing_i,
                   success_count, resp, histvars, logs>>

\* next json file: its file row is found by pdf name
IngestOpenFile(jf) ==
    /\ ing_pc = "files"
    /\ jf \in ing_todo
    /\ FileIdsNamed(PdfNameOfJson(jf)) # {}
    /\ ing_todo' = ing_todo \ {jf}
    /\ ing_doc' = Stem(jf)
    /\ ing_file_id' = CHOOSE f \in FileIdsNamed(PdfNameOfJson(jf)) : TRUE
    /\ ing_i' = 1
    /\ success_count' = 0
    /\ ing_pc' = "loop"
    /\ UNCHANGED <<dbvars, fsvars, up_doc, pending, ing_report, resp, histvars, logs>>

\* next json file: get_file_id raises ValueError, the file is given up
IngestNoFileRecord(jf) ==
    /\ ing_pc = "files"
    /\ jf \in ing_todo
    /\ FileIdsNamed(PdfNameOfJson(jf)) = {}
    /\ ing_todo' = ing_todo \ {jf}
    /\ pending' = EmptyTable
    /\ ing_report' = [doc |-> Stem(jf), status |-> "failed", inserted |-> 0,
                      total |-> Len(json_dir[Stem(jf)].val)]
    /\ UNCHANGED <<dbvars, fsvars, ing_pc, up_doc, ing_doc, ing_file_id, ing_i,
                   success_count, resp, histvars, logs>>

CurrentQuestions == json_dir[ing_doc].val

\* insert_question for questions[ing_i]: INSERT with the placeholder, then
\* the UPDATE that sets question_base_id; nothing is committed yet
IngestInsert ==
    /\ ing_pc = "loop"
    /\ ing_i <= Len(CurrentQuestions)
    /\ next_qid <= MaxQid
    /\ LET q == CurrentQuestions[ing_i]
       IN  pending' = SetBaseId(InsertRow(pending, next_qid, IngestedRow(q, ing_file_id)),
                                next_qid)
    /\ next_qid' = next_qid + 1
    /\ success_count' = success_count + 1
    /\ ing_i' = ing_i + 1
    /\ UNCHANGED <<files, questions, next_fid, fsvars, ing_pc, up_doc, ing_todo,
                   ing_doc, ing_file_id, ing_report, resp, histvars, logs>>

\* the INSERT of questions[ing_i] raises: except branch, conn.rollback()
IngestInsertFails ==
    /\ ing_pc = "loop"
    /\ ing_i <= Len(CurrentQuestions)
    /\ pending' = EmptyTable
    /\ ing_report' = [doc |-> ing_doc, status |-> "failed", inserted |-> 0,
                      total |-> Len(CurrentQuestions)]
    /\ ing_pc' = "files"
    /\ UNCHANGED <<dbvars, fsvars, up_doc, ing_todo, ing_doc, ing_file_id, ing_i,
                   success_count, resp, histvars, logs>>

\* the INSERT went through, the follow-up UPDATE raises: conn.rollback()
IngestUpdateFails ==
    /\ ing_pc = "loop"
    /\ ing_i <= Len(CurrentQuestions)
    /\ next_qid <= MaxQid
    /\ next_qid' = next_qid + 1
    /\ pending' = EmptyTable
    /\ ing_report' = [doc |-> ing_doc, status |-> "failed", inserted |-> 0,
                      total |-> Len(CurrentQuestions)]
    /\ ing_pc' = "files"
    /\ UNCHANGED <<files, questions, next_fid, fsvars, up_doc, ing_todo, ing_doc,
                   ing_file_id, ing_i, success_count, resp, histvars, logs>>

\* the loop over the file's questions is over: conn.commit() and the
\* "Inserted N / M" line
IngestCommit ==
    /\ ing_pc = "loop"
    /\ ing_i > Len(CurrentQuestions)
    /\ questions' = CommitRows(questions, pending)
    /\ pending' = EmptyTable
    /\ ever_had' = ever_had \cup {pending[k].file_id : k \in DOMAIN pending}
    /\ ingested' = ingested \cup {ing_doc}
    /\ ing_report' = [doc |-> ing_doc, status |-> "ok", inserted |-> success_count,
                      total |-> Len(CurrentQuestions)]
    /\ ing_pc' = "files"
    /\ UNCHANGED <<files, next_qid, next_fid, fsvars, up_doc, ing_todo, ing_doc,
                   ing_file_id, ing_i, success_count, resp, logs>>

\* no json file left: close the connection and exit (the process state is
\* gone); an upload answers 201
IngestFinish ==
    /\ ing_pc = "files"
    /\ ing_todo = {}
    /\ ing_pc' = "idle"
    /\ up_doc' = NoneVal
    /\ logs' = IF up_doc.some THEN Append(logs, LogEntry("insert_questions", 0))
                ELSE logs
    /\ resp' = IF up_doc.some THEN UploadResp(201, "none", logs') ELSE resp
    /\ ing_doc' = "none"
    /\ ing_file_id' = 0
    /\ ing_i' = 0
    /\ success_count' = 0
    /\ ing_report' = NoReport
    /\ UNCHANGED <<dbvars, fsvars, ing_todo, pending, histvars>>


(* ------------------------------ the API ------------------------------- *)
\* a variant of the allow-list that lets the base identity through
allowed_question_fields_for_edit_WithBase ==
    {"question_stem", "concept_tags", "difficulty_rating_manual", "question_type",
     "question_options", "question_answer", "question_base_id"}

allowed_question_fields_for_edit ==
    {"question_stem", "concept_tags", "difficulty_rating_manual", "question_type",
     "question_options", "question_answer"}
allowed_file_fields_for_edit == {"assessment_type", "course", "year", "semester"}

\* request bodies of PATCH /api/editquestions/<q_id> (all non-empty)
PatchPayloads ==
    { [question_type |-> "coding", question_base_id |-> 99],
      [question_base_id |-> 99, id |-> 98, version_id |-> 5, file_id |-> 97],
      [course |-> "ST2334", question_base_id |-> 99, question_type |-> "coding"] }

\* the keys of the payload that are in the allow-list
FilterFields(payload, allowed) == (DOMAIN payload) \cap allowed

\* UPDATE <table> SET k = payload[k], ... for the keys ks, on one row
ApplyUpdates(row, payload, ks) ==
    [f \in DOMAIN row |-> IF f \in ks THEN payload[f] ELSE row[f]]

\* the difficulty_rating_manual of the body is neither null nor readable by
\* float()
DifficultyRejected(payload) ==
    /\ "difficulty_rating_manual" \in DOMAIN payload
    /\ payload.difficulty_rating_manual.kind # "none"
    /\ ~PyFloat(payload.difficulty_rating_manual).ok

\* question_updates after the per-field handling: the difficulty as a float
\* or NULL, the concept tags normalised, the other values as sent
PreparedUpdates(payload) ==
    [k \in DOMAIN payload |->
        IF k = "difficulty_rating_manual"
        THEN (IF payload[k].kind = "none" THEN SqlNull
              ELSE SqlNum(PyFloat(payload[k]).num))
        ELSE IF k = "concept_tags" THEN normalize_concept_tags(payload[k])
        ELSE payload[k]]

\* update_question with a non-empty body (no body of the model carries
\* question_options or question_answer)
UpdateQuestion(q_id, payload) ==
    /\ ing_pc = "idle"
    /\ LET question_updates == FilterFields(payload, allowed_question_fields_for_edit)
           file_updates     == FilterFields(payload, allowed_file_fields_for_edit)
       IN  IF question_updates = {} /\ file_updates = {}
           THEN /\ resp' = ErrResp(400, "no_allowed_fields")
                /\ UNCHANGED <<files, questions>>
           ELSE IF DifficultyRejected(payload)
           THEN /\ resp' = ErrResp(400, "invalid_type")
                /\ UNCHANGED <<files, questions>>
           ELSE /\ questions' =
                      IF question_updates # {} /\ q_id \in DOMAIN questions
                      THEN [questions EXCEPT
                              ![q_id] = ApplyUpdates(@, PreparedUpdates(payload),
                                                     question_updates)]
                      ELSE questions
                /\ IF file_updates # {} /\ q_id \notin DOMAIN questions
                   THEN /\ resp' = ErrResp(404, "not_found_or_deleted")
                        /\ UNCHANGED files
                   ELSE /\ files' =
                              IF file_updates # {} /\ questions[q_id].file_id \in DOMAIN files
                              THEN [files EXCEPT ![questions[q_id].file_id] =
                                       ApplyUpdates(@, payload, file_updates)]
                              ELSE files
                        /\ resp' = OkResp(200)
    /\ UNCHANGED <<next_qid, next_fid, fsvars, ingvars, histvars, logs>>

\* update_question with an empty or missing body
UpdateQuestionEmptyBody ==
    /\ ing_pc = "idle"
    /\ resp' = ErrResp(400, "empty_body")
    /\ UNCHANGED <<dbvars, fsvars, ingvars, histvars, logs>>

\* a cleanup that removes the file whenever a question of it is deleted
OrphanCleanup_Always(fs, qs, file_id) == DeleteRow(fs, file_id)

\* steps 3-4 of delete_question: the file row goes when no question of the
\* file remains
OrphanCleanup(fs, qs, file_id) ==
    IF CountOfFile(qs, file_id) = 0 THEN DeleteRow(fs, file_id) ELSE fs

\* delete_question; db_error: a statement raises (when the file_id lookup
\* raises the exception is logged and the DELETE runs on the same broken
\* connection), the transaction is rolled back, 500
DeleteQuestion(q_id, db_error) ==
    /\ ing_pc = "idle"
    /\ IF db_error
       THEN /\ resp' = ErrResp(500, "delete_failed")
            /\ UNCHANGED <<files, questions>>
       ELSE IF q_id \notin DOMAIN questions
       THEN /\ resp' = ErrResp(404, "not_found")
            /\ UNCHANGED <<files, questions>>
       ELSE /\ questions' = DeleteRow(questions, q_id)
            /\ files' = OrphanCleanup(files, questions', questions[q_id].file_id)
            /\ resp' = OkResp(200)
    /\ UNCHANGED <<next_qid, next_fid, fsvars, ingvars, histvars, logs>>

\* question_type values sent to the creation endpoints
PostedTypes == {"mcq"}

\* difficulty_rating_manual values sent to the creation endpoints by the
\* clients of the upload model
NoDifficulty == {DNone}

\* bool(v) of a difficulty value (every str of the model is non-empty)
PyTruthy(v) ==
    CASE v.kind = "none"             -> FALSE
      [] v.kind \in {"int", "float"} -> v.num # 0
      [] OTHER                       -> TRUE

\* addquestion: payload.get("difficulty_rating_manual") or None is handed to
\* the INSERT as it is; ok is FALSE when the statement raises on the value.
\* A str goes to the DOUBLE column as text: a numeral is converted by the
\* engine, any other text is refused in strict SQL mode and becomes 0
\* otherwise.
AddDifficulty(v, strict) ==
    IF ~PyTruthy(v) THEN [ok |-> TRUE, val |-> SqlNull]
    ELSE IF v.kind \in {"int", "float"} \/ (v.kind = "str" /\ v.numeral)
    THEN [ok |-> TRUE, val |-> SqlNum(v.num)]
    ELSE IF strict THEN [ok |-> FALSE, val |-> SqlNull]
    ELSE [ok |-> TRUE, val |-> SqlNum(0)]

\* create_question: float(v) unless v is None (or ""), None when float()
\* raises
CreateDifficulty(v) ==
    IF v.kind # "none" /\ PyFloat(v).ok THEN SqlNum(PyFloat(v).num) ELSE SqlNull

\* the INSERT / UPDATE / commit block shared by addquestion and
\* create_question; difficulty: the value handed to the INSERT; fault: which
\* statement raises, if any
InsertQuestionTx(file_id, question_type, difficulty, fault) ==
    IF fault = "insert"
    THEN /\ resp' = ErrResp(500, "insert_failed")
         /\ UNCHANGED <<questions, next_qid, ever_had>>
    ELSE IF fault = "update"
    THEN /\ resp' = ErrResp(500, "insert_failed")
         /\ next_qid' = next_qid + 1
         /\ UNCHANGED <<questions, ever_had>>
    ELSE /\ questions' =
               CommitRows(questions,
                   SetBaseId(InsertRow(EmptyTable, next_qid,
                                 NewQuestionRow(file_id, "NULL", question_type,
                                                normalize_concept_tags(PyNone),
                                                difficulty, SqlNullPaths,
                                                JsonPaths({}))),
                             next_qid))
         /\ next_qid' = next_qid + 1
         /\ ever_had' = ever_had \cup {file_id}
         /\ resp' = OkResp(201)

\* addquestion with a file_id in the body; strict: the engine's SQL mode
AddQuestion(file_id, question_type, difficulty, strict, fault) ==
    /\ ing_pc = "idle"
    /\ next_qid <= MaxQid
    /\ IF file_id \notin DOMAIN files
       THEN /\ resp' = ErrResp(404, "file_not_found")
            /\ UNCHANGED <<questions, next_qid, ever_had>>
       ELSE LET d == AddDifficulty(difficulty, strict)
            IN  InsertQuestionTx(file_id, question_type, d.val,
                                 IF d.ok THEN fault ELSE "insert")
    /\ UNCHANGED <<files, next_fid, fsvars, ingvars, ingested, logs>>

\* create_question: a synthetic file row is inserted and committed, then the
\* question is inserted in a second transaction
CreateQuestion(question_type, difficulty, fault) ==
    /\ ing_pc = "idle"
    /\ next_qid <= MaxQid
    /\ next_fid <= MaxFid
    /\ IF fault = "file"
       THEN /\ resp' = ErrResp(500, "file_creation_failed")
            /\ UNCHANGED <<files, next_fid, questions, next_qid, ever_had>>
       ELSE /\ files' = InsertRow(files, next_fid,
                            [file_name |-> <<"MANUAL_Q", "txt">>, course |-> "NULL"])
            /\ next_fid' = next_fid + 1
            /\ InsertQuestionTx(next_fid, question_type, CreateDifficulty(difficulty),
                                fault)
    /\ UNCHANGED <<fsvars, ingvars, ingested, logs>>

(* ----------------------- the API: reading routes ---------------------- *)
\* a variant that reads the manual rating with "or": 0.0 counts as absent
difficulty_level_Truthy(difficulty_manual, difficulty_model) ==
    IF ~difficulty_manual.null /\ difficulty_manual.num # 0
    THEN difficulty_manual ELSE difficulty_model

\* difficulty_manual if difficulty_manual is not None else difficulty_model
difficulty_level(difficulty_manual, difficulty_model) ==
    IF ~difficulty_manual.null THEN difficulty_manual ELSE difficulty_model

\* the item get_question / _map_question_row builds from one joined row
MapQuestionRow(row) ==
    [difficulty_manual |-> row.difficulty_rating_manual,
     difficulty_model  |-> row.difficulty_rating_model,
     difficulty_level  |-> difficulty_level(row.difficulty_rating_manual,
                                            row.difficulty_rating_model)]

\* get_question without filters: every question joined with its file
GetQuestion ==
    /\ ing_pc = "idle"
    /\ view' = [id \in {q \in DOMAIN questions : questions[q].file_id \in DOMAIN files}
                  |-> MapQuestionRow(questions[id])]
    /\ resp' = OkResp(200)
    /\ UNCHANGED <<dbvars, fsvars, ingvars, histvars, logs>>

\* ratings the difficulty model predicts, in tenths
Predictions == {7}

\* predict_difficulty: every question without a manual rating gets the
\* model's rating, unless the run is a dry run; 503 when no model is loaded
PredictDifficulty(yhat, dry_run, model_loaded) ==
    /\ ing_pc = "idle"
    /\ IF ~model_loaded
       THEN /\ resp' = ErrResp(503, "model not loaded")
            /\ UNCHANGED questions
       ELSE /\ resp' = OkResp(200)
            /\ questions' =
                  IF dry_run THEN questions
                  ELSE [id \in DOMAIN questions |->
                          IF questions[id].difficulty_rating_manual.null
                          THEN [questions[id] EXCEPT
                                  !.difficulty_rating_model = SqlNum(yhat)]
                          ELSE questions[id]]
    /\ UNCHANGED <<files, next_qid, next_fid, fsvars, ingvars, histvars, logs>>

(* --------------------- the API: requests of a client ------------------ *)
NoPayload == [no_body |-> TRUE]

Request(op, q_id, payload, confirmation) ==
    [op |-> op, q_id |-> q_id, payload |-> payload, confirmation |-> confirmation]

TwoTags == << <<"s", "regression">>, <<"s", "anova">> >>

\* concept_tags values a body can carry
TagValues ==
    { PyNone, PyList(TwoTags), PyArrayStr(TwoTags, TRUE), PyArrayStr(TwoTags, FALSE),
      PyBareStr("regression"), PyObjectStr("{a: 1}"), PyNumber("5") }

\* difficulty_rating_manual values a body can carry
DifficultyValues == { DNone, DInt(0), DFloat(5), DNumStr(5), DWordStr, DList }

\* request bodies of PATCH /api/editquestions/<q_id> sent by the client of
\* the edit model
EditPayloads ==
    PatchPayloads
    \cup {[concept_tags |-> t] : t \in TagValues}
    \cup {[difficulty_rating_manual |-> d] : d \in DifficultyValues}
    \cup { [difficulty_rating_manual |-> DWordStr, question_type |-> "coding"],
           [difficulty_rating_manual |-> DInt(0), concept_tags |-> PyList(TwoTags),
            question_base_id |-> 99] }

\* the store after one upload whose pipeline stopped at a stage and one
\* addquestion for the uploaded file
SeedFiles == InsertRow(EmptyTable, 1, [file_name |-> PdfOf("d1"), course |-> "ST1131"])
SeedQuestions ==
    CommitRows(EmptyTable,
        SetBaseId(InsertRow(EmptyTable, 1,
                      NewQuestionRow(1, "NULL", "mcq", normalize_concept_tags(PyNone),
                                     SqlNull, SqlNullPaths, JsonPaths({}))),
                  1))

EditInit ==
    /\ files = SeedFiles
    /\ questions = SeedQuestions
    /\ next_qid = 2
    /\ next_fid = 2
    /\ source_files = {PdfOf("d1")}
    /\ json_dir = [d \in Docs |-> NoneVal]
    /\ ing_pc = "idle"
    /\ up_doc = NoneVal
    /\ ing_todo = {}
    /\ ing_doc = "none"
    /\ ing_file_id = 0
    /\ ing_i = 0
    /\ pending = EmptyTable
    /\ success_count = 0
    /\ ing_report = NoReport
    /\ resp = OkResp(201)
    /\ ever_had = {1}
    /\ ingested = {}
    /\ logs = <<>>

(* ------------------- an upload after an earlier one ------------------- *)
\* the document uploaded and ingested before the run starts
EarlierDoc == "d0"
\* its artifact: one fragment
EarlierArtifact == ParsedArtifact(NoneVal, <<[kind |-> "array", items |-> <<Frag1>>]>>)

\* The store after EarlierDoc went through the pipeline: its PDF and its
\* artifact are on disk.  Its question row (and with it its file row) is
\* either still there or was deleted through the API since.
LaterInit ==
    /\ \E kept \in BOOLEAN :
          /\ files = IF kept
                     THEN InsertRow(EmptyTable, 1, [file_name |-> PdfOf(EarlierDoc),
                                                    course |-> "ST1131"])
                     ELSE EmptyTable
          /\ questions = IF kept
                         THEN SetBaseId(InsertRow(EmptyTable, 1,
                                            IngestedRow(EarlierArtifact.val[1], 1)), 1)
                         ELSE EmptyTable
    /\ next_qid = 2
    /\ next_fid = 2
    /\ source_files = {PdfOf(EarlierDoc)}
    /\ json_dir = [d \in Docs \cup {EarlierDoc} |->
                      IF d = EarlierDoc THEN EarlierArtifact ELSE NoneVal]
    /\ ing_pc = "idle"
    /\ up_doc = NoneVal
    /\ ing_todo = {}
    /\ ing_doc = "none"
    /\ ing_file_id = 0
    /\ ing_i = 0
    /\ pending = EmptyTable
    /\ success_count = 0
    /\ ing_report = NoReport
    /\ resp = OkResp(201)
    /\ ever_had = {1}
    /\ ingested = {EarlierDoc}
    /\ logs = <<>>

(* ---------------- delete_question: requests side by side -------------- *)
MaxReq == 2            \* delete requests served at the same time

\* transaction isolation of the connections: the engine's default, or the
\* level a server can be configured with
IsolationLevels == {"REPEATABLE-READ", "READ-COMMITTED"}

\* a request that has not opened its connection yet.  deleted_file_id 0:
\* None.  snapshot: the questions table as the transaction's first
\* consistent read saw it.  del_q, del_f: rows the transaction has deleted
\* and holds locked until it ends
NewTx(iso) ==
    [pc |-> "select", isolation |-> iso, q_id |-> 0, deleted_file_id |-> 0,
     snapshot |-> EmptyTable, del_q |-> {}, del_f |-> {}, status |-> 0]

DeleteRows(tbl, ids) == [k \in (DOMAIN tbl) \ ids |-> tbl[k]]

\* rows locked by the open transactions of the other requests
LockedQuestions(r) == UNION {txs[o].del_q : o \in (DOMAIN txs) \ {r}}
LockedFiles(r)     == UNION {txs[o].del_f : o \in (DOMAIN txs) \ {r}}

\* what a plain SELECT of request r reads: under REPEATABLE READ the
\* snapshot of its first read, under READ COMMITTED what is committed now;
\* in both without the rows the transaction itself deleted
VisibleQuestions(r) ==
    DeleteRows(IF txs[r].isolation = "REPEATABLE-READ" THEN txs[r].snapshot
               ELSE questions,
               txs[r].del_q)

\* file 1 with the questions 1..MaxQid
ConcQuestions ==
    [k \in 1..MaxQid |->
        [NewQuestionRow(1, "NULL", "mcq", normalize_concept_tags(PyNone),
                        SqlNull, SqlNullPaths, JsonPaths({}))
            EXCEPT !.question_base_id = k]]

ConcInit ==
    /\ files = SeedFiles
    /\ questions = ConcQuestions
    /\ next_qid = MaxQid + 1
    /\ next_fid = 2
    /\ source_files = {PdfOf("d1")}
    /\ json_dir = [d \in Docs |-> NoneVal]
    /\ ing_pc = "idle"
    /\ up_doc = NoneVal
    /\ ing_todo = {}
    /\ ing_doc = "none"
    /\ ing_file_id = 0
    /\ ing_i = 0
    /\ pending = EmptyTable
    /\ success_count = 0
    /\ ing_report = NoReport
    /\ resp = OkResp(201)
    /\ ever_had = {1}
    /\ ingested = {}
    /\ logs = <<>>
    /\ \E iso \in IsolationLevels : txs = [r \in 1..MaxReq |-> NewTx(iso)]

\* 1. SELECT file_id FROM questions WHERE id = q_id
TxSelectFileId(r, q) ==
    /\ txs[r].pc = "select"
    /\ txs' = [txs EXCEPT ![r].pc = "delete",
                          ![r].q_id = q,
                          ![r].snapshot = questions,
                          ![r].deleted_file_id =
                              IF q \in DOMAIN questions THEN questions[q].file_id ELSE 0]
    /\ UNCHANGED <<dbvars, fsvars, ingvars, resp, histvars, logs>>

\* 2. DELETE FROM questions WHERE id = q_id: works on the committed row and
\* waits while another transaction holds it locked.  rowcount 0: commit, 404
TxDeleteQuestion(r) ==
    /\ txs[r].pc = "delete"
    /\ txs[r].q_id \notin LockedQuestions(r)
    /\ IF txs[r].q_id \in DOMAIN questions
       THEN /\ txs' = [txs EXCEPT ![r].del_q = {txs[r].q_id},
                                  ![r].pc = IF txs[r].deleted_file_id # 0
                                            THEN "count" ELSE "commit"]
            /\ resp' = resp
       ELSE /\ txs' = [txs EXCEPT ![r].pc = "done", ![r].status = 404]
            /\ resp' = ErrResp(404, "not_found")
    /\ UNCHANGED <<dbvars, fsvars, ingvars, histvars, logs>>

\* 3. SELECT COUNT(*) FROM questions WHERE file_id = deleted_file_id, and
\* 4. DELETE FROM files WHERE id = deleted_file_id when the count is zero
TxCleanupFile(r) ==
    /\ txs[r].pc = "count"
    /\ LET remaining_count == CountOfFile(VisibleQuestions(r), txs[r].deleted_file_id)
       IN  IF remaining_count = 0
           THEN /\ txs[r].deleted_file_id \notin LockedFiles(r)
                /\ txs' = [txs EXCEPT ![r].pc = "commit",
                                      ![r].del_f = {txs[r].deleted_file_id}
                                                       \cap DOMAIN files]
           ELSE txs' = [txs EXCEPT ![r].pc = "commit"]
    /\ UNCHANGED <<dbvars, fsvars, ingvars, resp, histvars, logs>>

\* conn.commit() and the 200 answer
TxCommit(r) ==
    /\ txs[r].pc = "commit"
    /\ questions' = DeleteRows(questions, txs[r].del_q)
    /\ files' = DeleteRows(files, txs[r].del_f)
    /\ txs' = [txs EXCEPT ![r].pc = "done", ![r].status = 200,
                          ![r].del_q = {}, ![r].del_f = {}]
    /\ resp' = OkResp(200)
    /\ UNCHANGED <<next_qid, next_fid, fsvars, ingvars, histvars, logs>>

\* a statement of the try block raises: conn.rollback() and the 500 answer
TxRollback(r) ==
    /\ txs[r].pc \in {"delete", "count"}
    /\ txs' = [txs EXCEPT ![r].pc = "done", ![r].status = 500,
                          ![r].del_q = {}, ![r].del_f = {}]
    /\ resp' = ErrResp(500, "delete_failed")
    /\ UNCHANGED <<dbvars, fsvars, ingvars, histvars, logs>>

(* ------------------------- pdf_extractor: run ------------------------- *)
\* the extractor is not running
ExtractOff ==
    /\ ex_pdf = <<>>
    /\ ex_pc = "off"
    /\ ex_i = 0
    /\ ex_full_text = <<>>
    /\ ex_images = {}
    /\ ex_text_file = NoneVal
    /\ ex_fail = 0

\* pdfplumber.open(pdf_path) succeeded: full_text = [], the page loop starts
ExtractInit ==
    /\ ex_pdf \in DocBodies
    /\ ex_pc = "loop"
    /\ ex_i = 1
    /\ ex_full_text = <<>>
    /\ ex_images = {}
    /\ ex_text_file = NoneVal
    /\ ex_fail = 0

\* one iteration of the page loop: extract and clean the text, render and
\* save the page image, append the text block with its markers
ExtractPage ==
    /\ ex_pc = "loop"
    /\ ex_i <= Len(ex_pdf)
    /\ ex_images' = ex_images \cup {ex_i}
    /\ ex_full_text' = Append(ex_full_text, PageBlock(ex_i, ex_pdf[ex_i]))
    /\ ex_i' = ex_i + 1
    /\ UNCHANGED <<ex_pdf, ex_pc, ex_text_file, ex_fail>>

\* page.to_image / save raises inside the loop: the exception leaves the
\* with block and the try, the except branch prints "Failed to process"
ExtractRenderFails ==
    /\ ex_pc = "loop"
    /\ ex_i <= Len(ex_pdf)
    /\ ex_fail' = ex_i
    /\ ex_pc' = "failed"
    /\ UNCHANGED <<ex_pdf, ex_i, ex_full_text, ex_images, ex_text_file>>

\* after the loop: join the blocks and write the text file
ExtractWrite ==
    /\ ex_pc = "loop"
    /\ ex_i > Len(ex_pdf)
    /\ ex_text_file' = Some(JoinWith(FileSep, ex_full_text))
    /\ ex_pc' = "written"
    /\ UNCHANGED <<ex_pdf, ex_i, ex_full_text, ex_images, ex_fail>>

\* no request has been sent
ApiOff ==
    /\ req = [op |-> "none", q_id |-> 0, payload |-> [no_body |-> TRUE],
              confirmation |-> "none"]
    /\ view = <<>>

\* no chunk has been processed
ChunkOff ==
    /\ raw = <<>>
    /\ output = <<>>
    /\ output_clean = <<>>
    /\ chunk_parsed = [ok |-> FALSE, is_list |-> FALSE, items |-> <<>>]

\* no delete request is being served
TxOff == txs = <<>>

(* --------------------------- specifications --------------------------- *)
\* the parser is not running
ParseOff ==
    /\ txt = NoneVal
    /\ pf_pc = "off"
    /\ page_to_image_map = <<>>
    /\ pages = <<>>
    /\ adaptive_size = 0
    /\ chunks = <<>>
    /\ idx = 0
    /\ all_questions = <<>>
    /\ responses = <<>>
    /\ questions_ret = NoneVal
    /\ json_out = NoneVal

InitDB == StoreInit /\ ParseOff /\ ExtractOff /\ ApiOff /\ ChunkOff /\ TxOff

NextDB ==
    \/ (\E d \in Docs : UploadFile(d)) /\ UNCHANGED <<pvars, xvars, evars, cvars, tvars>>
    \/ (\E d \in Docs : UploadFileDbError(d)) /\ UNCHANGED <<pvars, xvars, evars, cvars, tvars>>
    \/ ExtractDocument /\ UNCHANGED <<pvars, xvars, evars, cvars, tvars>>
    \/ StageFails /\ UNCHANGED <<pvars, xvars, evars, cvars, tvars>>
    \/ StageTimesOut /\ UNCHANGED <<pvars, xvars, evars, cvars, tvars>>
    \/ ParseDocument /\ UNCHANGED <<pvars, xvars, evars, cvars, tvars>>
    \/ IngestStart /\ UNCHANGED <<pvars, xvars, evars, cvars, tvars>>
    \/ (\E jf \in ing_todo : IngestOpenFile(jf)) /\ UNCHANGED <<pvars, xvars, evars, cvars, tvars>>
    \/ (\E jf \in ing_todo : IngestNoFileRecord(jf)) /\ UNCHANGED <<pvars, xvars, evars, cvars, tvars>>
    \/ IngestInsert /\ UNCHANGED <<pvars, xvars, evars, cvars, tvars>>
    \/ IngestInsertFails /\ UNCHANGED <<pvars, xvars, evars, cvars, tvars>>
    \/ IngestUpdateFails /\ UNCHANGED <<pvars, xvars, evars, cvars, tvars>>
    \/ IngestCommit /\ UNCHANGED <<pvars, xvars, evars, cvars, tvars>>
    \/ IngestFinish /\ UNCHANGED <<pvars, xvars, evars, cvars, tvars>>
    \/ (\E q \in 1..MaxQid, pl \in PatchPayloads : UpdateQuestion(q, pl)) /\ UNCHANGED <<pvars, xvars, evars, cvars, tvars>>
    \/ UpdateQuestionEmptyBody /\ UNCHANGED <<pvars, xvars, evars, cvars, tvars>>
    \/ (\E q \in 1..MaxQid, e \in BOOLEAN : DeleteQuestion(q, e)) /\ UNCHANGED <<pvars, xvars, evars, cvars, tvars>>
    \/ (\E f \in 1..MaxFid, t \in PostedTypes, d \in NoDifficulty,
            fault \in {"none", "insert", "update"} :
           AddQuestion(f, t, d, TRUE, fault)) /\ UNCHANGED <<pvars, xvars, evars, cvars, tvars>>
    \/ (\E t \in PostedTypes, d \in NoDifficulty,
            fault \in {"none", "file", "insert", "update"} :
           CreateQuestion(t, d, fault)) /\ UNCHANGED <<pvars, xvars, evars, cvars, tvars>>

SpecDB == InitDB /\ [][NextDB]_vars


Init == ParseInit /\ StoreInit /\ ExtractOff /\ ApiOff /\ ChunkOff /\ TxOff

Next ==
    \/ ReadFileMissing /\ UNCHANGED <<dvars, xvars, evars, cvars, tvars>>
    \/ SplitAndChunk /\ UNCHANGED <<dvars, xvars, evars, cvars, tvars>>
    \/ ChunkSuccess /\ UNCHANGED <<dvars, xvars, evars, cvars, tvars>>
    \/ ChunkInvalidJSON /\ UNCHANGED <<dvars, xvars, evars, cvars, tvars>>
    \/ ChunkException /\ UNCHANGED <<dvars, xvars, evars, cvars, tvars>>
    \/ FinishParse /\ UNCHANGED <<dvars, xvars, evars, cvars, tvars>>
    \/ WriteArtifact /\ UNCHANGED <<dvars, xvars, evars, cvars, tvars>>

Spec == Init /\ [][Next]_vars

\* parse_file up to the chunk loop, over any text file
InitIndex == IndexInit /\ StoreInit /\ ExtractOff /\ ApiOff /\ ChunkOff /\ TxOff

NextIndex == SplitAndChunk /\ UNCHANGED <<dvars, xvars, evars, cvars, tvars>>

SpecIndex == InitIndex /\ [][NextIndex]_vars

\* parse_file over the texts a chunk's call can return
InitChunk == ShapeInit /\ StoreInit /\ ExtractOff /\ ApiOff /\ ChunkOff /\ TxOff

NextChunk ==
    \/ SplitAndChunk /\ UNCHANGED <<dvars, xvars, evars, cvars, tvars>>
    \/ (\E text \in RawResponses : ChunkResponse(text))
          /\ UNCHANGED <<dvars, xvars, evars, tvars>>
    \/ ChunkCallRaises /\ UNCHANGED <<dvars, xvars, evars, tvars>>
    \/ FinishParse /\ UNCHANGED <<dvars, xvars, evars, cvars, tvars>>
    \/ FinishParseRaises /\ UNCHANGED <<dvars, xvars, evars, cvars, tvars>>
    \/ WriteArtifact /\ UNCHANGED <<dvars, xvars, evars, cvars, tvars>>

SpecChunk == InitChunk /\ [][NextChunk]_vars

\* uploads into a store that holds an earlier document
InitLater == LaterInit /\ ParseOff /\ ExtractOff /\ ApiOff /\ ChunkOff /\ TxOff

NextLater ==
    \/ (\E d \in Docs : UploadFile(d)) /\ UNCHANGED <<pvars, xvars, evars, cvars, tvars>>
    \/ (\E d \in Docs : UploadFileDbError(d)) /\ UNCHANGED <<pvars, xvars, evars, cvars, tvars>>
    \/ ExtractDocument /\ UNCHANGED <<pvars, xvars, evars, cvars, tvars>>
    \/ StageFails /\ UNCHANGED <<pvars, xvars, evars, cvars, tvars>>
    \/ StageTimesOut /\ UNCHANGED <<pvars, xvars, evars, cvars, tvars>>
    \/ ParseDocument /\ UNCHANGED <<pvars, xvars, evars, cvars, tvars>>
    \/ IngestStart /\ UNCHANGED <<pvars, xvars, evars, cvars, tvars>>
    \/ (\E jf \in ing_todo : IngestOpenFile(jf)) /\ UNCHANGED <<pvars, xvars, evars, cvars, tvars>>
    \/ (\E jf \in ing_todo : IngestNoFileRecord(jf)) /\ UNCHANGED <<pvars, xvars, evars, cvars, tvars>>
    \/ IngestInsert /\ UNCHANGED <<pvars, xvars, evars, cvars, tvars>>
    \/ IngestInsertFails /\ UNCHANGED <<pvars, xvars, evars, cvars, tvars>>
    \/ IngestUpdateFails /\ UNCHANGED <<pvars, xvars, evars, cvars, tvars>>
    \/ IngestCommit /\ UNCHANGED <<pvars, xvars, evars, cvars, tvars>>
    \/ IngestFinish /\ UNCHANGED <<pvars, xvars, evars, cvars, tvars>>

SpecLater == InitLater /\ [][NextLater]_vars

\* difficulty_rating_manual values the bodies of the creation routes carry
PostedDifficulties == DifficultyValues \cup {DFloat(0)}

\* the two creation routes on a store that starts empty
InitCreate == StoreInit /\ ParseOff /\ ExtractOff /\ ApiOff /\ ChunkOff /\ TxOff

NextCreate ==
    \/ (\E f \in 1..MaxFid, d \in PostedDifficulties \ {DList}, strict \in BOOLEAN,
            fault \in {"none", "insert"} :
           /\ AddQuestion(f, "mcq", d, strict, fault)
           /\ req' = Request("addquestion", next_qid,
                             [difficulty_rating_manual |-> d], "none")
           /\ UNCHANGED <<view, pvars, xvars, cvars, tvars>>)
    \/ (\E d \in PostedDifficulties, fault \in {"none", "file", "insert"} :
           /\ CreateQuestion("mcq", d, fault)
           /\ req' = Request("createquestion", next_qid,
                             [difficulty_rating_manual |-> d], "none")
           /\ UNCHANGED <<view, pvars, xvars, cvars, tvars>>)

SpecCreate == InitCreate /\ [][NextCreate]_vars

\* delete_question served for several requests at once
InitConc == ConcInit /\ ParseOff /\ ExtractOff /\ ApiOff /\ ChunkOff

NextConc ==
    \/ (\E r \in 1..MaxReq, q \in 1..MaxQid : TxSelectFileId(r, q))
          /\ UNCHANGED <<pvars, xvars, evars, cvars>>
    \/ (\E r \in 1..MaxReq : TxDeleteQuestion(r)) /\ UNCHANGED <<pvars, xvars, evars, cvars>>
    \/ (\E r \in 1..MaxReq : TxCleanupFile(r)) /\ UNCHANGED <<pvars, xvars, evars, cvars>>
    \/ (\E r \in 1..MaxReq : TxCommit(r)) /\ UNCHANGED <<pvars, xvars, evars, cvars>>
    \/ (\E r \in 1..MaxReq : TxRollback(r)) /\ UNCHANGED <<pvars, xvars, evars, cvars>>

SpecConc == InitConc /\ [][NextConc]_vars

InitEdit == EditInit /\ ParseOff /\ ExtractOff /\ ApiOff /\ ChunkOff /\ TxOff

NextEdit ==
    \/ (\E q \in 1..MaxQid, pl \in EditPayloads :
           /\ UpdateQuestion(q, pl)
           /\ req' = Request("update", q, pl, "none")
           /\ UNCHANGED <<view, pvars, xvars, cvars, tvars>>)
    \/ (/\ UpdateQuestionEmptyBody
        /\ req' = Request("update_empty_body", 1, NoPayload, "none")
        /\ UNCHANGED <<view, pvars, xvars, cvars, tvars>>)
    \/ (\E q \in 1..MaxQid, e \in BOOLEAN, c \in {"YES", "none"} :
           /\ DeleteQuestion(q, e)
           /\ req' = Request("delete", q, NoPayload, c)
           /\ UNCHANGED <<view, pvars, xvars, cvars, tvars>>)
    \/ (/\ GetQuestion
        /\ req' = Request("list", 0, NoPayload, "none")
        /\ UNCHANGED <<pvars, xvars, cvars, tvars>>)
    \/ (\E y \in Predictions, dry \in BOOLEAN, loaded \in BOOLEAN :
           /\ PredictDifficulty(y, dry, loaded)
           /\ req' = Request("predict", 0, NoPayload, "none")
           /\ UNCHANGED <<view, pvars, xvars, cvars, tvars>>)

SpecEdit == InitEdit /\ [][NextEdit]_vars

InitExtract == ExtractInit /\ ParseOff /\ StoreInit /\ ApiOff /\ ChunkOff /\ TxOff

NextExtract ==
    \/ ExtractPage /\ UNCHANGED <<pvars, dvars, evars, cvars, tvars>>
    \/ ExtractRenderFails /\ UNCHANGED <<pvars, dvars, evars, cvars, tvars>>
    \/ ExtractWrite /\ UNCHANGED <<pvars, dvars, evars, cvars, tvars>>

SpecExtract == InitExtract /\ [][NextExtract]_vars

(* ========================= properties: store ========================== *)
\* the step is the failure of an insert in the ingestion loop
InsertFailureStep ==
    ing_pc = "loop" /\ ing_pc' = "files" /\ ing_report'.status = "failed"

\* C2: fragments are persisted independently: when inserting fragment K
\* fails, the fragments 1..K-1 inserted before it remain persisted once the
\* file has been given up.
C2_EarlierFragmentsSurvive ==
    [][InsertFailureStep => \A k \in DOMAIN pending : k \in DOMAIN questions']_vars

\* C4: ingestion is idempotent: when the store holds what one ingestion of a
\* document's artifact leaves, a further ingestion of the same artifact
\* leaves the questions table as it is.
C4_IngestionIdempotent ==
    [][(/\ ing_pc = "loop"
        /\ ing_doc \in ingested
        /\ CountOfFile(questions, ing_file_id) = Len(CurrentQuestions))
       => questions' = questions]_vars

\* C5: once a row is in the questions table its question_base_id never
\* changes, whatever keys an update_question payload carries.
C5_BaseIdentityStable ==
    [][\A id \in DOMAIN questions :
          id \in DOMAIN questions' =>
              questions'[id].question_base_id = questions[id].question_base_id]_vars

\* a row edited by the payload that names question_base_id next to an
\* allowed field
C5_Witness ==
    \E id \in DOMAIN questions :
        /\ questions[id].question_type = "coding"
        /\ questions[id].question_base_id = id
        /\ resp = OkResp(200)

\* C6: every committed question row has question_base_id equal to its own
\* id: the placeholder 0 is never visible in the table, and an insert whose
\* follow-up UPDATE fails commits no row.
C6_BaseIdEqualsOwnId ==
    \A id \in DOMAIN questions : questions[id].question_base_id = id

\* a committed row, and the last id consumed by an insert whose UPDATE
\* failed: 500, and no row under that id
C6_Witness ==
    /\ questions # EmptyTable
    /\ resp = ErrResp(500, "insert_failed")
    /\ next_qid = MaxQid + 1
    /\ MaxQid \notin DOMAIN questions

HasQuestions(tbl, f) == \E q \in DOMAIN tbl : tbl[q].file_id = f

C8_TypeEnumEnforced ==
    [][ing_pc = "loop" =>
          \A id \in (DOMAIN questions') \ (DOMAIN questions) :
              questions'[id].question_type \in QuestionTypes]_vars

\* the image references a row holds, in whichever of the two image columns
\* (a NULL column holds none)
StoredImageRefs(row) == row.page_image_paths.paths \cup row.question_media.paths

\* C21: for every fragment the ingestion script inserts, the image references
\* stored on the row decode to the same set as the fragment's
\* page_image_paths.
C21_StoredImagesAreResolvedImages ==
    [][(/\ ing_pc = "loop"
        /\ next_qid \notin DOMAIN pending
        /\ next_qid \in DOMAIN pending')
       => StoredImageRefs(pending'[next_qid]) = CurrentQuestions[ing_i].page_image_paths]_vars

(* ------------------------ properties: pipeline ------------------------ *)
StageNames == <<"pdf_extractor", "llm_parser", "insert_questions">>
\* how many stages have been started when the pipeline is at pc
StagesStarted(pc) == IF pc = "extract" THEN 1 ELSE IF pc = "parse" THEN 2 ELSE 3
\* the step in which the upload request is answered
UploadAnswered == up_doc.some /\ ~up_doc'.some

\* C26: the stages run in the order pdf_extractor, llm_parser,
\* insert_questions, each only after every earlier one returned 0; the
\* response of the upload has a log entry for exactly the stages that ran,
\* and when a stage failed it is a 500 that names that (first failing)
\* stage.
C26_StagesInOrderWithLogs ==
    [][/\ (ing_pc' = "parse" /\ ing_pc # "parse") =>
              (ing_pc = "extract" /\ logs' = <<LogEntry("pdf_extractor", 0)>>)
       /\ (ing_pc' = "insert" /\ ing_pc # "insert") =>
              (ing_pc = "parse" /\ logs' = <<LogEntry("pdf_extractor", 0),
                                             LogEntry("llm_parser", 0)>>)
       /\ UploadAnswered =>
              LET n == StagesStarted(ing_pc)
                  p == resp'.pipeline
              IN  /\ Len(p) = n
                  /\ \A i \in 1..n : p[i].stage = StageNames[i]
                  /\ \A i \in 1..(n - 1) : p[i].code = 0
                  /\ IF p[n].code = 0
                     THEN n = 3 /\ resp'.status = 201
                     ELSE resp'.status = 500 /\ resp'.error = StageError(ing_pc)]_vars

\* the same with the answers to a stage that did not return left out
C26_ExitCodesOnly ==
    [][(UploadAnswered /\ resp'.error # "internal_server_error") =>
              LET n == StagesStarted(ing_pc)
                  p == resp'.pipeline
              IN  /\ Len(p) = n
                  /\ \A i \in 1..n : p[i].stage = StageNames[i]
                  /\ \A i \in 1..(n - 1) : p[i].code = 0
                  /\ IF p[n].code = 0
                     THEN n = 3 /\ resp'.status = 201
                     ELSE resp'.status = 500 /\ resp'.error = StageError(ing_pc)]_vars

(* --------------------- properties: side by side ----------------------- *)
\* C27: whatever the interleaving of delete requests on questions of one
\* file, each in its own transaction, once every request has ended a file
\* that has no question left has no file row either.
C27_NoOrphanAfterConcurrentDeletes ==
    (\A r \in DOMAIN txs : txs[r].pc = "done") =>
        \A f \in ever_had :
            CountOfFile(questions, f) = 0 => f \notin DOMAIN files

(* ------------------ properties: an upload's ingestion ----------------- *)
\* the file id of the document whose upload is being served
UploadedFileId == CHOOSE f \in FileIdsNamed(PdfOf(up_doc.val)) : TRUE

\* C29: the ingestion run an upload of D triggers inserts rows only for D.
\* Every row the run writes carries D's file id, and the number of rows of
\* every other file is the same after each of the run's commits as before.
C29_IngestionTouchesOnlyUploaded ==
    [][(up_doc.some /\ ing_pc \in {"files", "loop"}) =>
          /\ \A k \in (DOMAIN pending') \ (DOMAIN pending) :
                 pending'[k].file_id = UploadedFileId
          /\ \A f \in (DOMAIN files) \ {UploadedFileId} :
                 CountOfFile(questions', f) = CountOfFile(questions, f)]_vars

(* ------------------- properties: creating questions ------------------- *)
\* C30: on /addquestion and /api/createquestion the stored
\* difficulty_rating_manual of the created row is the supplied number, 0
\* included, and it is null only when the body supplied no value: a
\* supplied 0 or a supplied text that is no number is not stored as null.
C30_SuppliedDifficultyPersisted ==
    [][\A k \in (DOMAIN questions') \ (DOMAIN questions) :
          LET supplied == req'.payload.difficulty_rating_manual
              stored   == questions'[k].difficulty_rating_manual
          IN  /\ supplied.kind \in {"int", "float"} => stored = SqlNum(supplied.num)
              /\ stored.null => supplied.kind = "none"]_vars

(* ========================= properties: parser ========================= *)
\* parse_file got past the chunking of an existing text file
Chunked == txt.some /\ pf_pc \in {"loop", "returned", "done"}
\* parse_file has just built the chunks (they never change afterwards)
JustChunked == txt.some /\ pf_pc = "loop" /\ idx = 1
\* parse_file has returned for an existing text file
Returned == txt.some /\ pf_pc \in {"returned", "done"}

\* fragment lists of exactly the chunks that parsed, in chunk order
ConcatParsed(rs) ==
    Flatten([i \in 1..Len(rs) |-> IF ChunkParsed(rs[i]) THEN rs[i].items ELSE <<>>])

\* the fragments parse_file handed back (None carries none)
ReturnedFragments == IF questions_ret.some THEN questions_ret.val ELSE <<>>

\* C1: whatever each chunk's call ended in, the fragment list accumulated by
\* parse_file, and the list it returns (after page reconciliation), is the
\* concatenation in chunk order of the fragment lists of exactly the chunks
\* that parsed: a failing chunk removes nothing, an empty chunk discards
\* nothing.
C1_PartialFailureContainment ==
    /\ Chunked => all_questions = ConcatParsed(responses)
    /\ Returned =>
          /\ Len(responses) = Len(chunks)
          /\ ReturnedFragments =
                map_pages_to_images(ConcatParsed(responses), page_to_image_map)

\* a file with a failing chunk, a chunk with zero fragments and a chunk with
\* a fragment, fully processed
C1_Witness ==
    /\ pf_pc = "done"
    /\ \E i, j, k \in 1..Len(responses) :
          /\ ~ChunkParsed(responses[i])
          /\ responses[j].kind = "array" /\ responses[j].items = <<>>
          /\ ChunkParsed(responses[k]) /\ responses[k].items # <<>>
          /\ i < k
    /\ questions_ret.some

\* C3: the artifact is absent if and only if zero chunks parsed successfully.
C3_ArtifactIffSomeChunkParsed ==
    (txt.some /\ pf_pc = "done") =>
        (json_out.some <=> \E i \in 1..Len(responses) : ChunkParsed(responses[i]))

\* pages recovered by splitting every chunk on the page-separator token
RecoveredPages == Flatten([k \in 1..Len(chunks) |-> SplitPages(chunks[k])])

\* page p as it comes back out of its chunk: one newline of the re-inserted
\* separator sticks to each side that touches a separator
PageInChunk(p) ==
    (IF (p - 1) % adaptive_size = 0 THEN <<>> ELSE <<NL>>)
    \o pages[p]
    \o (IF p % adaptive_size = 0 \/ p = Len(pages) THEN <<>> ELSE <<NL>>)

\* C9 as stated: splitting the chunks on the separator token gives back the
\* original pages, each page's text identical.
C9_ChunkCoverageExact == JustChunked => RecoveredPages = pages

\* C9 (amended): splitting the chunks on the separator token gives back as
\* many pages as the original, in the same order, none dropped and none
\* duplicated; each page's text is the original text, except that a page
\* carries one extra newline on every side where parse_file re-inserted a
\* separator.
C9_ChunkCoverage ==
    JustChunked =>
        LET rec == RecoveredPages
        IN  /\ Len(rec) = Len(pages)
            /\ \A p \in 1..Len(pages) : rec[p] = PageInChunk(p)

\* several chunks, at least one of them holding several pages
C9_Witness ==
    /\ JustChunked
    /\ Len(chunks) >= 2
    /\ Len(pages) > adaptive_size
    /\ adaptive_size \in {3, 5, 10}

\* C10: the chunk size is 10 when the mean page length is below 500, 5 when
\* it is at least 500 and below 1500, 3 otherwise; the number of chunks is
\* ceil(page_count / chunk_size).
C10_ChunkSizeAndCount ==
    JustChunked =>
        LET n    == Len(pages)
            sum  == SumLen(pages)
        IN  /\ (sum < 500 * n) => adaptive_size = 10
            /\ (sum >= 500 * n /\ sum < 1500 * n) => adaptive_size = 5
            /\ (sum >= 1500 * n) => adaptive_size = 3
            /\ Len(chunks) * adaptive_size >= n
            /\ (Len(chunks) - 1) * adaptive_size < n
            /\ (n = 12 /\ sum \div n = 300) => Len(chunks) = 2
            /\ (n = 9 /\ sum \div n >= 1500) => Len(chunks) = 3

\* the 12-page document of mean page length 300 (rounded down), in 2 chunks
C10_Witness ==
    /\ JustChunked
    /\ Len(pages) = 12
    /\ SumLen(pages) \div 12 = 300
    /\ Len(chunks) = 2

\* page numbers of the page-index markers present in a text
MarkerPages(t) == {t[i][2] : i \in {j \in 1..Len(t) : IsPNum(t[j])}}

SegStarts(t) == {0} \cup {i \in 1..Len(t) : t[i] = SEP}
SegEnd(t, s) ==
    LET later == {i \in (s + 1)..Len(t) : t[i] = SEP}
    IN  IF later = {} THEN Len(t) + 1 ELSE CHOOSE i \in later : \A j \in later : i <= j
Segment(t, s) == SubSeq(t, s + 1, SegEnd(t, s) - 1)

HasMarker(seg) == \E i \in 1..Len(seg) : IsPNum(seg[i])
\* page number of the first page-index marker of a segment that has one
FirstMarkerPage(seg) ==
    seg[CHOOSE i \in 1..Len(seg) :
            IsPNum(seg[i]) /\ \A j \in 1..(i - 1) : ~IsPNum(seg[j])][2]
\* the image markers of a segment, in order of appearance
ImageMarkers(seg) ==
    LET at == {i \in 1..Len(seg) : IsImg(seg[i])}
        nth(k) == CHOOSE i \in at : Cardinality({j \in at : j < i}) = k - 1
    IN  [k \in 1..Cardinality(at) |-> seg[nth(k)][2]]

C22_WitnessEmptyList ==
    /\ JustChunked
    /\ txt.val = <<PNum(1), SEP, PNum(2), PNum(1), Img(2)>>
    /\ page_to_image_map = [k \in {1, 2} |-> IF k = 1 THEN <<>> ELSE <<2>>]

\* images the index holds for the pages a fragment claims
ClaimedImages(q, page_map) ==
    UNION {SeqToSet(page_map[p]) : p \in SeqToSet(q.page_numbers) \cap DOMAIN page_map}

\* C12: every returned fragment carries as page_image_paths exactly the union,
\* over its claimed pages, of the index's images; a claimed page without an
\* index entry adds nothing, a fragment with no resolvable page gets the
\* empty collection, and with pages 5 and 6 in the index the claim [5, 6, 99]
\* resolves to the images of pages 5 and 6.
C12_ImagesAreUnionOfClaimedPages ==
    (Returned /\ questions_ret.some) =>
        \A i \in 1..Len(questions_ret.val) :
            LET q == questions_ret.val[i]
            IN  /\ q.page_image_paths = ClaimedImages(q, page_to_image_map)
                /\ (SeqToSet(q.page_numbers) \cap DOMAIN page_to_image_map = {})
                      => q.page_image_paths = {}
                /\ (q.page_numbers = <<5, 6, 99>> /\ {5, 6} \subseteq DOMAIN page_to_image_map)
                      => q.page_image_paths = {5, 6}

\* one run returns a fragment resolved to two pages' images (with a claimed
\* page missing from the index) next to a fragment resolved to one
C12_Witness ==
    /\ Returned /\ questions_ret.some
    /\ \E i, j \in 1..Len(questions_ret.val) :
          /\ questions_ret.val[i].page_numbers = <<5, 6, 99>>
          /\ questions_ret.val[i].page_image_paths = {5, 6}
          /\ questions_ret.val[j].page_image_paths = {1}

\* a run over a short document: the fragment that claims pages 5, 6 and 99
\* resolves to nothing
C12_WitnessEmpty ==
    /\ Returned /\ questions_ret.some
    /\ \E i \in 1..Len(questions_ret.val) :
          /\ questions_ret.val[i].page_numbers = <<5, 6, 99>>
          /\ questions_ret.val[i].page_image_paths = {}

(* ------------------- properties: the response text -------------------- *)
\* C23: sanitize_output removes the fencing.  A raw response that is a
\* fence (with or without the tag json on its line), a body and a closing
\* fence is sanitized to exactly the trimmed body, whatever the body is; a
\* response that does not start with a fence is returned trimmed and
\* otherwise unchanged.
C23_FencingRemoved ==
    /\ \A b \in Bodies, tag \in FenceTags :
           raw = Fenced(tag, b) => output = Strip(b)
    /\ (Strip(raw) # <<>> /\ Head(Strip(raw)) # FENCE) => output = Strip(raw)

\* the last iteration's call returned a text
ChunkTextStep ==
    /\ Len(responses') = Len(responses) + 1
    /\ responses'[Len(responses')].kind # "error"

\* C24: per chunk the sanitized response is parsed as it is, and only when
\* that fails are the control characters stripped and the parse retried,
\* once.  So a response that parses as it is yields that very value, a
\* response that does not yields the value of its stripped text, and one
\* that fails both times adds no fragment.
C24_ParseThenRepairOnce ==
    [][ChunkTextStep =>
          /\ JsonLoadsText(output').ok => chunk_parsed' = JsonLoadsText(output')
          /\ ~JsonLoadsText(output').ok =>
                 chunk_parsed' = JsonLoadsText(strip_controls(output'))
          /\ ~chunk_parsed'.ok => all_questions' = all_questions]_vars

RECURSIVE ConcatItems(_)
\* what the chunks' responses put into all_questions, in order
ConcatItems(rs) ==
    IF rs = <<>> THEN <<>>
    ELSE (IF ChunkParsed(Head(rs)) THEN Head(rs).items ELSE <<>>) \o ConcatItems(Tail(rs))

IsIntEntry(p) == p[1] = "int"
\* the integer entries of a page_numbers value, in their order
IntegerEntries(page_numbers) ==
    LET ints == SelectSeq(page_numbers, IsIntEntry)
    IN  [i \in 1..Len(ints) |-> ints[i][2]]

\* C25: after reconciliation a fragment's page_numbers is exactly the
\* integer entries of the value the LLM supplied, in their order; strings,
\* null, fractional numbers and nested values are dropped, not converted.
C25_OnlyIntegerPagesKept ==
    (pf_pc \in {"returned", "done"} /\ questions_ret.some) =>
        /\ Len(questions_ret.val) = Len(ConcatItems(responses))
        /\ \A i \in 1..Len(questions_ret.val) :
               questions_ret.val[i].page_numbers
                   = IntegerEntries(ConcatItems(responses)[i].page_numbers)

\* C28: parse_file never ends with an exception because of what a response
\* parsed to (a scalar, null, an array with elements that are no objects):
\* it returns a list or None, and the fragments of the other chunks are in
\* the list.
C28_ShapeNeverAborts ==
    /\ pf_pc # "raised"
    /\ pf_pc \in {"returned", "done"} =>
           \A i \in 1..Len(ConcatItems(responses)) :
               ConcatItems(responses)[i].py = "dict" =>
                   /\ questions_ret.some
                   /\ \E j \in 1..Len(questions_ret.val) :
                          questions_ret.val[j].question_no
                              = ConcatItems(responses)[i].question_no

(* ======================= properties: extractor ======================== *)
\* C18: when rendering page k fails, the text file is still written, it
\* holds the text blocks of all N pages, page k's block has no image marker,
\* and the images of the other pages are saved.
C18_RenderFailureContained ==
    (ex_pc \in {"written", "failed"} /\ ex_fail # 0) =>
        /\ ex_text_file.some
        /\ Len(SplitPages(ex_text_file.val)) = Len(ex_pdf)
        /\ SelectSeq(SplitPages(ex_text_file.val)[ex_fail], IsImg) = <<>>
        /\ ex_images = (1..Len(ex_pdf)) \ {ex_fail}

(* ========================= properties: the API ======================== *)
\* the step answers an edit request
EditStep == req'.op = "update"

AllStrings(xs) == \A i \in 1..Len(xs) : xs[i][1] = "s"

\* the input shapes of concept_tags: a list of strings, a JSON string that
\* encodes a list, a bare string that is not JSON
AcceptedTagShape(x) ==
    \/ x.kind = "list" /\ AllStrings(x.items)
    \/ x.kind = "str" /\ x.jk = "array" /\ AllStrings(x.items)
    \/ x.kind = "str" /\ x.jk = "none"

\* the value is a str that decodes as a JSON array of strings
DecodesAsStringArray(v) == v.kind = "str" /\ v.jk = "array" /\ AllStrings(v.items)

\* C13: an edit that supplies concept_tags in an accepted shape (list of
\* strings, JSON string of a list, bare string) stores a value that decodes
\* as a JSON array of strings.
C13_TagsStoredAsStringArray ==
    [][(/\ EditStep
        /\ "concept_tags" \in DOMAIN req'.payload
        /\ AcceptedTagShape(req'.payload.concept_tags)
        /\ resp' = OkResp(200)
        /\ req'.q_id \in DOMAIN questions')
       => DecodesAsStringArray(questions'[req'.q_id].concept_tags)]_vars

\* inputs of normalize_concept_tags: None, list, tuple, JSON-array strings,
\* JSON non-array strings, bare string, other scalars
TagInputs ==
    TagValues \cup { PyTuple(TwoTags), PyList(<< <<"n", "1">> >>), PyList(<<>>),
                     PyArrayStr(<<>>, TRUE), PyArrayStr(<< <<"n", "1">> >>, FALSE),
                     PyNumberStr("5"), PyDict("{a: 1}") }

\* C14: normalize_concept_tags is idempotent: normalising a normalised value
\* gives the same value, for every kind of input and for every value an edit
\* has stored.
C14_NormalizeIdempotent ==
    /\ \A x \in TagInputs :
          normalize_concept_tags(normalize_concept_tags(x)) = normalize_concept_tags(x)
    /\ \A id \in DOMAIN questions :
          normalize_concept_tags(questions[id].concept_tags) = questions[id].concept_tags

\* an edit sent a JSON-array string in a spacing json.dumps does not write;
\* the row holds the canonical text
C14_Witness ==
    /\ req.op = "update"
    /\ "concept_tags" \in DOMAIN req.payload
    /\ req.payload.concept_tags = PyArrayStr(TwoTags, FALSE)
    /\ resp = OkResp(200)
    /\ req.q_id \in DOMAIN questions
    /\ questions[req.q_id].concept_tags = PyArrayStr(TwoTags, TRUE)

\* C15: the difficulty_level of every exposed item equals the manual rating
\* whenever that is not null, 0.0 included, and the model rating only when
\* the manual rating is null.
C15_EffectiveDifficulty ==
    \A id \in DOMAIN view :
        /\ ~view[id].difficulty_manual.null
              => view[id].difficulty_level = view[id].difficulty_manual
        /\ view[id].difficulty_manual.null
              => view[id].difficulty_level = view[id].difficulty_model

\* an exposed item with manual rating 0.0 next to a model rating
C15_Witness ==
    \E id \in DOMAIN view :
        /\ view[id].difficulty_manual = SqlNum(0)
        /\ view[id].difficulty_model = SqlNum(7)
        /\ view[id].difficulty_level = SqlNum(0)

HasDisallowedField(payload) ==
    \E k \in DOMAIN payload :
        k \notin allowed_question_fields_for_edit \cup allowed_file_fields_for_edit

\* C16: an edit whose body carries a field outside the allow-lists is
\* rejected with a 400 and writes nothing, also when the body carries allowed
\* fields.
C16_DisallowedFieldRejected ==
    [][(EditStep /\ HasDisallowedField(req'.payload))
       => (resp'.status = 400 /\ UNCHANGED <<questions, files>>)]_vars

\* float() can read the value / what it reads, in tenths
Coercible(v) == v.kind \in {"int", "float"} \/ (v.kind = "str" /\ v.numeral)

\* C17: an edit that supplies a non-null difficulty_rating_manual either
\* stores the float the value coerces to (no row gets any other new value),
\* or, when the value does not coerce, is answered 400 invalid_type and
\* writes nothing.
C17_DifficultyCoercedOrRejected ==
    [][(/\ EditStep
        /\ "difficulty_rating_manual" \in DOMAIN req'.payload
        /\ req'.payload.difficulty_rating_manual.kind # "none")
       => LET v == req'.payload.difficulty_rating_manual
              q == req'.q_id
          IN  IF Coercible(v)
              THEN /\ \A id \in (DOMAIN questions) \cap (DOMAIN questions') :
                        \/ questions'[id].difficulty_rating_manual =
                              questions[id].difficulty_rating_manual
                        \/ id = q /\ questions'[id].difficulty_rating_manual = SqlNum(v.num)
                   /\ (resp' = OkResp(200) /\ q \in DOMAIN questions')
                        => questions'[q].difficulty_rating_manual = SqlNum(v.num)
              ELSE /\ resp' = ErrResp(400, "invalid_type")
                   /\ UNCHANGED <<questions, files>>]_vars

\* the string "0.5" was sent and the row holds 0.5
C17_Witness ==
    /\ req.op = "update"
    /\ "difficulty_rating_manual" \in DOMAIN req.payload
    /\ req.payload.difficulty_rating_manual = DNumStr(5)
    /\ resp = OkResp(200)
    /\ req.q_id \in DOMAIN questions
    /\ questions[req.q_id].difficulty_rating_manual = SqlNum(5)

\* a word was sent next to an allowed field: 400 invalid_type, and the row
\* keeps the rating and the type it had
C17_WitnessRejected ==
    /\ req.op = "update"
    /\ req.payload = [difficulty_rating_manual |-> DWordStr, question_type |-> "coding"]
    /\ resp = ErrResp(400, "invalid_type")
    /\ req.q_id \in DOMAIN questions
    /\ questions[req.q_id].difficulty_rating_manual = SqlNum(5)
    /\ questions[req.q_id].question_type = "mcq"

\* C19: an edit of a question id that is not in the table is answered 404
\* and modifies no row, for bodies that touch question fields as well as for
\* bodies that touch file fields.
C19_EditOfMissingIs404 ==
    [][(/\ EditStep
        /\ req'.q_id \notin DOMAIN questions
        /\ FilterFields(req'.payload, allowed_question_fields_for_edit
                                       \cup allowed_file_fields_for_edit) # {}
        /\ ~DifficultyRejected(req'.payload))
       => (resp'.status = 404 /\ UNCHANGED <<questions, files>>)]_vars

\* C20: a delete request that does not carry the confirmation "YES" is
\* answered 400 confirmation_required and deletes no question and no file.
C20_DeleteNeedsConfirmation ==
    [][(req'.op = "delete" /\ req'.confirmation # "YES")
       => (/\ resp' = ErrResp(400, "confirmation_required")
           /\ UNCHANGED <<questions, files>>)]_vars

====
